---- MODULE Spec2Model ----
(***************************************************************************)
(* A model of the loxide bytecode virtual machine (src/src/vm.rs), its     *)
(* mark-and-sweep collector (src/src/allocate.rs) and the value / object   *)
(* layer (src/src/value.rs, src/src/object.rs, src/src/gc.rs).             *)
(*                                                                         *)
(* The VM executes the byte code the single-pass compiler                  *)
(* (src/src/compiler.rs) emits for a small set of Lox programs; a REPL     *)
(* session feeds up to MaxLines of them to one VM.  A collection may run   *)
(* at any allocation.                                                      *)
(***************************************************************************)
EXTENDS Integers, Sequences, FiniteSets, TLC

\* ------------------------------------------------------------------ bounds
\* number of interpret calls made on one VM (REPL lines)
MaxLines == 2
\* number of value-stack slots the modelled programs may touch
StackSlots == 70

\* ------------------------------------------------------- program constants
STACK_LIMIT == 255
FRAMES_MAX == 64
Null == 0

OP_CONSTANT == 0
OP_NIL == 1
OP_POP == 4
OP_GET_LOCAL == 5
OP_GET_GLOBAL == 7
OP_DEFINE_GLOBAL == 8
OP_SET_GLOBAL == 9
OP_GET_UPVALUE == 10
OP_SET_UPVALUE == 11
OP_ADD == 18
OP_PRINT == 24
OP_CALL == 28
OP_CLOSURE == 31
OP_CLOSE_UPVALUE == 32
OP_RETURN == 36

\* ------------------------------------------------------------------ values
\* Value: nil, bool, number or a reference to a heap cell
NilV == [k |-> "nil", n |-> 0]
BoolV(b) == [k |-> "bool", n |-> IF b THEN 1 ELSE 0]
NumberV(x) == [k |-> "num", n |-> x]
ObjV(id) == [k |-> "obj", n |-> id]

IsObj(v) == v.k = "obj"

\* ------------------------------------------------------------- heap cells
\* One record shape for every object type; unused fields keep these defaults.
BlankCell ==
  [t |-> "String", s |-> "", prog |-> 0, fnid |-> 0, consts |-> << >>,
   name |-> Null, function |-> Null, upvalues |-> << >>,
   location |-> -1, closed |-> NilV, next |-> Null,
   class |-> Null, methods |-> << >>, fields |-> << >>,
   receiver |-> NilV, method |-> Null, is_marked |-> FALSE]

StringCell(content) == [BlankCell EXCEPT !.t = "String", !.s = content]
NativeCell == [BlankCell EXCEPT !.t = "Native"]
FunctionCell(p, i, nm) ==
  [BlankCell EXCEPT !.t = "Function", !.prog = p, !.fnid = i, !.name = nm]
\* ObjClosure::new: the function and an upvalue array (one null per upvalue)
ClosureCell(fn, n) ==
  [BlankCell EXCEPT !.t = "Closure", !.function = fn,
                    !.upvalues = [i \in 1..n |-> Null]]
\* ObjUpvalue::new: location set, closed = Nil, next = None
UpvalueCell(loc) ==
  [BlankCell EXCEPT !.t = "Upvalue", !.location = loc, !.closed = NilV,
                    !.next = Null]

\* ObjClass::new: the name and no method
ClassCell(nm) == [BlankCell EXCEPT !.t = "Class", !.name = nm]
\* ObjInstance::new: the class and no field
InstanceCell(class) == [BlankCell EXCEPT !.t = "Instance", !.class = class]
\* ObjBoundMethod::new: the receiver and the method's closure
BoundMethodCell(receiver, method) ==
  [BlankCell EXCEPT !.t = "BoundMethod", !.receiver = receiver,
                    !.method = method]

\* ---------------------------------------------------------------- programs
\* constants of a chunk, as the compiler adds them
KStr(s) == [k |-> "str", s |-> s, n |-> 0]
KNum(x) == [k |-> "num", s |-> "", n |-> x]
KFn(i) == [k |-> "fn", s |-> "", n |-> i]

\* a function and its chunk: code, lines (one per code byte) and constants.
\* A function built here, not by the parser, has all its bytes on line 1.
\* targets is history: for the operand of every jump the parser patched and
\* of every Loop it emitted, the code index the parser meant.
Fn(nm, ar, uc, code, consts) ==
  [name |-> nm, arity |-> ar, upvalue_count |-> uc, code |-> code,
   lines |-> [i \in DOMAIN code |-> 1], consts |-> consts, targets |-> {},
   loops |-> {}]

(* PA:  var f;
        fun foo() { var local = "lo" + "cal"; fun f_() { print local; } f = f_; }
        foo();
        fun k() {}
        f();                                                                *)
ProgA ==
  << Fn("", 0, 0,
        << OP_NIL, OP_DEFINE_GLOBAL, 0,
           OP_CLOSURE, 2, OP_DEFINE_GLOBAL, 1,
           OP_GET_GLOBAL, 3, OP_CALL, 0, OP_POP,
           OP_CLOSURE, 5, OP_DEFINE_GLOBAL, 4,
           OP_GET_GLOBAL, 6, OP_CALL, 0, OP_POP,
           OP_NIL, OP_RETURN >>,
        << KStr("f"), KStr("foo"), KFn(2), KStr("foo"), KStr("k"), KFn(4),
           KStr("f") >>),
     Fn("foo", 0, 0,
        << OP_CONSTANT, 0, OP_CONSTANT, 1, OP_ADD,
           OP_CLOSURE, 2, 1, 1,
           OP_GET_LOCAL, 2, OP_SET_GLOBAL, 3, OP_POP,
           OP_NIL, OP_RETURN >>,
        << KStr("lo"), KStr("cal"), KFn(3), KStr("f") >>),
     Fn("f_", 0, 1,
        << OP_GET_UPVALUE, 0, OP_PRINT, OP_NIL, OP_RETURN >>,
        << >>),
     Fn("k", 0, 0, << OP_NIL, OP_RETURN >>, << >>) >>

(* PB:  var g; var h;
        { var a = "a"; var b = "b";
          fun g_() { print a; }
          fun h_() { print b; a = "x"; }
          g = g_; h = h_; }
        h(); g();                                                           *)
ProgB ==
  << Fn("", 0, 0,
        << OP_NIL, OP_DEFINE_GLOBAL, 0,
           OP_NIL, OP_DEFINE_GLOBAL, 1,
           OP_CONSTANT, 2, OP_CONSTANT, 3,
           OP_CLOSURE, 4, 1, 1,
           OP_CLOSURE, 5, 1, 2, 1, 1,
           OP_GET_LOCAL, 3, OP_SET_GLOBAL, 6, OP_POP,
           OP_GET_LOCAL, 4, OP_SET_GLOBAL, 7, OP_POP,
           OP_POP, OP_POP, OP_CLOSE_UPVALUE, OP_CLOSE_UPVALUE,
           OP_GET_GLOBAL, 8, OP_CALL, 0, OP_POP,
           OP_GET_GLOBAL, 9, OP_CALL, 0, OP_POP,
           OP_NIL, OP_RETURN >>,
        << KStr("g"), KStr("h"), KStr("a"), KStr("b"), KFn(2), KFn(3),
           KStr("g"), KStr("h"), KStr("h"), KStr("g") >>),
     Fn("g_", 0, 1,
        << OP_GET_UPVALUE, 0, OP_PRINT, OP_NIL, OP_RETURN >>,
        << >>),
     Fn("h_", 0, 2,
        << OP_GET_UPVALUE, 0, OP_PRINT,
           OP_CONSTANT, 0, OP_SET_UPVALUE, 1, OP_POP,
           OP_NIL, OP_RETURN >>,
        << KStr("x") >>) >>

(* PC:  fun f(a, b) {}
        f(1, 2, 3, 4);
        print "after";                                                      *)
ProgC ==
  << Fn("", 0, 0,
        << OP_CLOSURE, 1, OP_DEFINE_GLOBAL, 0,
           OP_GET_GLOBAL, 2,
           OP_CONSTANT, 3, OP_CONSTANT, 4, OP_CONSTANT, 5, OP_CONSTANT, 6,
           OP_CALL, 4, OP_POP,
           OP_CONSTANT, 7, OP_PRINT,
           OP_NIL, OP_RETURN >>,
        << KStr("f"), KFn(2), KStr("f"), KNum(1), KNum(2), KNum(3), KNum(4),
           KStr("after") >>),
     Fn("f", 2, 0, << OP_NIL, OP_RETURN >>, << >>) >>

(* PD:  print "x";                                                          *)
ProgD ==
  << Fn("", 0, 0,
        << OP_CONSTANT, 0, OP_PRINT, OP_NIL, OP_RETURN >>,
        << KStr("x") >>) >>

(* PE (test assign_to_closure):
        var f; var g;
        { var local = "local";
          fun f_() { print local; local = "after f"; print local; }
          f = f_;
          fun g_() { print local; local = "after g"; print local; }
          g = g_; }
        f(); g();                                                           *)
ProgE ==
  << Fn("", 0, 0,
        << OP_NIL, OP_DEFINE_GLOBAL, 0,
           OP_NIL, OP_DEFINE_GLOBAL, 1,
           OP_CONSTANT, 2,
           OP_CLOSURE, 3, 1, 1,
           OP_GET_LOCAL, 2, OP_SET_GLOBAL, 4, OP_POP,
           OP_CLOSURE, 5, 1, 1,
           OP_GET_LOCAL, 3, OP_SET_GLOBAL, 6, OP_POP,
           OP_POP, OP_POP, OP_CLOSE_UPVALUE,
           OP_GET_GLOBAL, 7, OP_CALL, 0, OP_POP,
           OP_GET_GLOBAL, 8, OP_CALL, 0, OP_POP,
           OP_NIL, OP_RETURN >>,
        << KStr("f"), KStr("g"), KStr("local"), KFn(2), KStr("f"), KFn(3),
           KStr("g"), KStr("f"), KStr("g") >>),
     Fn("f_", 0, 1,
        << OP_GET_UPVALUE, 0, OP_PRINT,
           OP_CONSTANT, 0, OP_SET_UPVALUE, 0, OP_POP,
           OP_GET_UPVALUE, 0, OP_PRINT,
           OP_NIL, OP_RETURN >>,
        << KStr("after f") >>),
     Fn("g_", 0, 1,
        << OP_GET_UPVALUE, 0, OP_PRINT,
           OP_CONSTANT, 0, OP_SET_UPVALUE, 0, OP_POP,
           OP_GET_UPVALUE, 0, OP_PRINT,
           OP_NIL, OP_RETURN >>,
        << KStr("after g") >>) >>

(* PF (test close_over_later_variable):
        fun f() { var a = "a"; var b = "b";
                  fun g() { print b; print a; }
                  g(); }
        f();                                                                *)
ProgF ==
  << Fn("", 0, 0,
        << OP_CLOSURE, 1, OP_DEFINE_GLOBAL, 0,
           OP_GET_GLOBAL, 2, OP_CALL, 0, OP_POP,
           OP_NIL, OP_RETURN >>,
        << KStr("f"), KFn(2), KStr("f") >>),
     Fn("f", 0, 0,
        << OP_CONSTANT, 0, OP_CONSTANT, 1,
           OP_CLOSURE, 2, 1, 2, 1, 1,
           OP_GET_LOCAL, 3, OP_CALL, 0, OP_POP,
           OP_NIL, OP_RETURN >>,
        << KStr("a"), KStr("b"), KFn(3) >>),
     Fn("g", 0, 2,
        << OP_GET_UPVALUE, 0, OP_PRINT, OP_GET_UPVALUE, 1, OP_PRINT,
           OP_NIL, OP_RETURN >>,
        << >>) >>

(* PG (test limit/stack_overflow):
        fun foo() { foo(); }
        foo();                                                              *)
ProgG ==
  << Fn("", 0, 0,
        << OP_CLOSURE, 1, OP_DEFINE_GLOBAL, 0,
           OP_GET_GLOBAL, 2, OP_CALL, 0, OP_POP,
           OP_NIL, OP_RETURN >>,
        << KStr("foo"), KFn(2), KStr("foo") >>),
     Fn("foo", 0, 0,
        << OP_GET_GLOBAL, 0, OP_CALL, 0, OP_POP, OP_NIL, OP_RETURN >>,
        << KStr("foo") >>) >>

Programs == << ProgA, ProgB, ProgC, ProgD, ProgE, ProgF, ProgG >>

\* the lines of a closure session, and those of a recursion session
ClosureSession ==
  {p \in DOMAIN Programs :
     Programs[p] \in {ProgA, ProgB, ProgC, ProgD, ProgE, ProgF}}
RecursionSession == {p \in DOMAIN Programs : Programs[p] \in {ProgF, ProgG}}

\* ---------------------------------------------------------------- messages
\* format!("{}", n) for the small integers the programs use
DecimalDigit == << "0", "1", "2", "3", "4", "5", "6", "7", "8", "9" >>

RECURSIVE Display(_)
Display(n) ==
  IF n < 10 THEN DecimalDigit[n + 1]
  ELSE Display(n \div 10) \o DecimalDigit[(n % 10) + 1]

\* ------------------------------------------------------------------- state
VARIABLES
  frames,         \* call frames 0 .. frame_count-1: [closure, ip, stack_offset]
  stack,          \* the value array; slots at and above stack_index are stale
  stack_index,
  strings,        \* the interner: ids of the string cells it holds
  globals,        \* string cell id -> Value
  cells,          \* every cell ever allocated, by id (freed ones included)
  gray_stack,     \* vm.gray_stack: the cells marked and not yet blackened
  objects,        \* the heap list, newest first
  init_string,
  open_upvalues,  \* head of the open-upvalue list, Null when empty
  out,            \* what print wrote to stdout
  err,            \* what runtime_error wrote to stderr
  status,         \* "idle", "running", "ok" (interpret returned Ok) or "error"
  lines,          \* the programs handed to interpret so far
  chunks,         \* the functions compile returned, one program per source
  src_text,       \* the source being compiled, as a sequence of lexemes
  parser,         \* compiler.rs Parser, with its scanner and its compilers
  calls,          \* the parser's call stack: [fn, pc, a, b] per activation
  allocations,    \* gc.rs GcState: the boxes of the rooted-handle heap
  lhs, rhs,       \* the operands of a comparison of two Values
  equal_result,   \* its result: "none" before it ran, then "true" or "false"
  handles,        \* the Gc handles the program holds, counted per box
  gc_cell,        \* a GcCell: its flags and the guards borrowed from it
  bytes_allocated, \* vm.bytes_allocated, a usize held as its signed residue
  next_gc,        \* vm.next_gc
  heap            \* what the heap list holds, in bytes, for the accounting

vm_vars == << frames, stack, stack_index, strings, globals, cells, gray_stack,
              objects,
              init_string, open_upvalues, out, err, status, lines, chunks >>
heap_vars == << bytes_allocated, next_gc, heap >>
gc_vars == << handles, gc_cell >>
value_vars == << allocations, lhs, rhs, equal_result, heap_vars, gc_vars >>
compile_vars == << src_text, parser, calls >>
vars == << vm_vars, value_vars, compile_vars >>

\* the VM as one value, so that a handler is a composition of its calls
VM ==
  [frames |-> frames, stack |-> stack, stack_index |-> stack_index,
   strings |-> strings, globals |-> globals, cells |-> cells,
   gray_stack |-> gray_stack,
   objects |-> objects, init_string |-> init_string,
   open_upvalues |-> open_upvalues, out |-> out, err |-> err,
   status |-> status, lines |-> lines, chunks |-> chunks]

CommitVM(v) ==
  /\ frames' = v.frames
  /\ stack' = v.stack
  /\ stack_index' = v.stack_index
  /\ strings' = v.strings
  /\ globals' = v.globals
  /\ cells' = v.cells
  /\ gray_stack' = v.gray_stack
  /\ objects' = v.objects
  /\ init_string' = v.init_string
  /\ open_upvalues' = v.open_upvalues
  /\ out' = v.out
  /\ err' = v.err
  /\ status' = v.status
  /\ lines' = v.lines
  /\ chunks' = v.chunks

Commit(v) == CommitVM(v) /\ UNCHANGED << value_vars, compile_vars >>

frame_count(v) == Len(v.frames)
current_frame(v) == v.frames[Len(v.frames)]
\* the functions of program p: a hand-compiled one, or one compile returned
ProgramOf(v, p) ==
  IF p <= Len(Programs) THEN Programs[p] ELSE v.chunks[p - Len(Programs)]
FnOf(v, fnCell) == ProgramOf(v, v.cells[fnCell].prog)[v.cells[fnCell].fnid]
ClosureFn(v, cl) == FnOf(v, v.cells[cl].function)
current_chunk(v) == ClosureFn(v, current_frame(v).closure)

\* --------------------------------------------------------------- sequencing
\* F applied to the value of e: e is evaluated once, like a let binding of
\* the source
Pick(S) == CHOOSE x \in S : TRUE
Bind(e, F(_)) == Pick({F(x) : x \in {e}})
Bind2(e1, e2, F(_, _)) == Pick({F(x, y) : x \in {e1}, y \in {e2}})

\* ------------------------------------------------------------ the collector
\* blacken_object: the cells one cell references
ValueRefs(val) == IF IsObj(val) THEN {val.n} ELSE {}

Refs(c) ==
  CASE c.t = "Closure" ->
         {c.function} \cup {c.upvalues[i] : i \in DOMAIN c.upvalues}
    [] c.t = "Function" ->
         {c.name} \cup UNION {ValueRefs(c.consts[i]) : i \in DOMAIN c.consts}
    [] c.t = "Upvalue" -> ValueRefs(c.closed)
    [] c.t = "Class" ->
         {c.name} \cup DOMAIN c.methods
         \cup UNION {ValueRefs(c.methods[k]) : k \in DOMAIN c.methods}
    [] c.t = "Instance" ->
         {c.class} \cup DOMAIN c.fields
         \cup UNION {ValueRefs(c.fields[k]) : k \in DOMAIN c.fields}
    [] c.t = "BoundMethod" -> ValueRefs(c.receiver) \cup {c.method}
    [] OTHER -> {}

RECURSIVE UpvalueList(_, _)
UpvalueList(cs, upvalue) ==
  Bind(upvalue, LAMBDA u :
    IF u = Null THEN << >> ELSE << u >> \o UpvalueList(cs, cs[u].next))

SeqToSet(q) == {q[i] : i \in DOMAIN q}

\* mark_roots
RootIds(v) ==
  {v.init_string}
  \cup UNION {ValueRefs(v.stack[i]) : i \in 0 .. v.stack_index - 1}
  \cup DOMAIN v.globals
  \cup UNION {ValueRefs(v.globals[k]) : k \in DOMAIN v.globals}
  \cup {v.frames[i].closure : i \in DOMAIN v.frames}
  \cup SeqToSet(UpvalueList(v.cells, v.open_upvalues))

\* mark_object on a set of cells: null is skipped, a marked cell is left
\* alone, the others are marked and pushed on the gray stack
mark_objects(v, ids) ==
  LET new == {o \in ids \ {Null} : ~v.cells[o].is_marked}
  IN  [v EXCEPT
         !.cells = [i \in DOMAIN @ |->
                      IF i \in new THEN [@[i] EXCEPT !.is_marked = TRUE]
                      ELSE @[i]],
         !.gray_stack = @ \cup new]

\* mark_roots starts from an empty gray stack of its own
mark_roots(vm) ==
  Bind(vm, LAMBDA v : mark_objects([v EXCEPT !.gray_stack = {}], RootIds(v)))

\* trace_references: the gray stack is popped and blackened until it is
\* empty.  Each round blackens every cell of the gray stack; the order in
\* which the stack is emptied does not change what gets marked.
RECURSIVE trace_references(_)
trace_references(vm) ==
  Bind(vm, LAMBDA v :
    IF v.gray_stack = {} THEN v
    ELSE trace_references(
           mark_objects([v EXCEPT !.gray_stack = {}],
                        UNION {Refs(v.cells[o]) : o \in v.gray_stack})))

\* the cells marked when the trace ends
Marked(v) ==
  Bind(trace_references(mark_roots(v)), LAMBDA traced :
    {i \in DOMAIN traced.cells : traced.cells[i].is_marked})

GarbageCell == [BlankCell EXCEPT !.t = "Garbage"]

\* remove_white_strings on the interner
retain_marked_strings(vm) ==
  Bind(vm, LAMBDA v :
    [v EXCEPT !.strings = {o \in @ : v.cells[o].is_marked}])

\* sweep of the heap list: a marked cell loses its mark and stays, an
\* unmarked one is unlinked and freed.  A freed cell's memory either still
\* holds what it held (mode "keep") or has been overwritten (mode
\* "scribble").
sweep_objectsKeepingMarks(vm, mode) ==
  Bind(vm, LAMBDA v :
    [v EXCEPT
       !.objects = SelectSeq(@, LAMBDA o : v.cells[o].is_marked),
       !.cells = [i \in DOMAIN @ |->
                    IF i \in SeqToSet(v.objects) /\ ~@[i].is_marked
                       /\ mode = "scribble"
                    THEN GarbageCell ELSE @[i]]])

sweep_objects(vm, mode) ==
  Bind(vm, LAMBDA v :
    [v EXCEPT
       !.objects = SelectSeq(@, LAMBDA o : v.cells[o].is_marked),
       !.cells = [i \in DOMAIN @ |->
                    IF i \notin SeqToSet(v.objects) THEN @[i]
                    ELSE IF @[i].is_marked THEN [@[i] EXCEPT !.is_marked = FALSE]
                    ELSE IF mode = "scribble" THEN GarbageCell
                    ELSE @[i]]])

\* collect_garbage: mark_roots, trace_references, remove_white_strings,
\* sweep
collect_garbage(vm, mode) ==
  sweep_objects(retain_marked_strings(trace_references(mark_roots(vm))),
                mode)

GcModes == {"none", "keep", "scribble"}

\* allocate: maybe collect, then link the new cell at the head of the heap.
\* The new cell's id is Len(cells) of the result.
allocate(vm, cell, gc) ==
  Bind(IF gc = "none" THEN vm ELSE collect_garbage(vm, gc), LAMBDA v1 :
    [v1 EXCEPT !.cells = Append(@, cell),
               !.objects = << Len(v1.cells) + 1 >> \o @])

NewId(v) == Len(v.cells)

\* -------------------------------------------------------------- vm helpers
Running(v) == v.status = "running"

\* the names of the functions in frames frame_count-1 .. 0
RECURSIVE Trace(_, _)
Trace(v, i) ==
  IF i = 0 THEN << >>
  ELSE << IF ClosureFn(v, v.frames[i].closure).name = "" THEN "script"
          ELSE ClosureFn(v, v.frames[i].closure).name >>
       \o Trace(v, i - 1)

\* Chunk::get_line: lines[ip - 1] of the source, whose vectors start at 0
get_line(chunk, ip) == chunk.lines[ip]

\* the frames for which runtime_error's get_line(frame.ip - 1) has no entry
\* of lines to read: the read panics
LinelessFrames(v) ==
  {i \in DOMAIN v.frames :
     v.frames[i].ip - 1 \notin DOMAIN ClosureFn(v, v.frames[i].closure).lines}

\* the lines printed for the frames frame_count-1 .. 0
RECURSIVE TraceLines(_, _)
TraceLines(v, i) ==
  IF i = 0 THEN << >>
  ELSE IF i \in LinelessFrames(v) THEN << -1 >> \o TraceLines(v, i - 1)
  ELSE << get_line(ClosureFn(v, v.frames[i].closure), v.frames[i].ip - 1) >>
       \o TraceLines(v, i - 1)

\* what runtime_error has printed when it ends: the whole trace, or the part
\* before the first frame whose line cannot be read
Printed(v, trace) ==
  IF LinelessFrames(v) = {} THEN trace
  ELSE SubSeq(trace, 1,
              Len(v.frames) - CHOOSE i \in LinelessFrames(v) :
                                \A j \in LinelessFrames(v) : j <= i)

\* runtime_error: message and trace to stderr, reset_stack, Err(Runtime).
\* reset_stack assigns stack_index only.
runtime_error(vm, msg) ==
  Bind(vm, LAMBDA v :
    IF LinelessFrames(v) # {}
    THEN [v EXCEPT
            !.err = Append(@, [msg |-> msg,
                               trace |-> Printed(v, Trace(v, Len(v.frames))),
                               lines |-> Printed(v, TraceLines(v, Len(v.frames)))]),
            !.status = "panic"]
    ELSE
    [v EXCEPT
       !.err = Append(@, [msg |-> msg, trace |-> Trace(v, Len(v.frames)),
                          lines |-> TraceLines(v, Len(v.frames))]),
       !.stack_index = 0,
       !.status = "error"])

push(vm, val) ==
  Bind(vm, LAMBDA v :
    IF ~Running(v) THEN v
    ELSE IF v.stack_index >= STACK_LIMIT
    THEN runtime_error(v, "Stack overflow.")
    ELSE [v EXCEPT !.stack[v.stack_index] = val, !.stack_index = @ + 1])

pop(vm) ==
  Bind(vm, LAMBDA v :
    IF ~Running(v) THEN v
    ELSE IF v.stack_index = 0
    THEN runtime_error(v, "Stack is empty, no value to pop.")
    ELSE [v EXCEPT !.stack_index = @ - 1])

\* the value pop returns / peek(i) reads
Top(v) == v.stack[v.stack_index - 1]
peek(v, i) == v.stack[v.stack_index - i - 1]

IsString(v, val) == IsObj(val) /\ v.cells[val.n].t = "String"
IsNumber(val) == val.k = "num"

\* ------------------------------------------------------------ the interner
Interned(v, content) == \E id \in v.strings : v.cells[id].s = content
StringId(v, content) == CHOOSE id \in v.strings : v.cells[id].s = content

\* copy_string / take_string: the canonical cell of the content, allocated
\* and entered in the table when there is none
copy_string(vm, content, gc) ==
  Bind(vm, LAMBDA v :
    IF Interned(v, content) THEN v
    ELSE Bind(allocate(v, StringCell(content), gc), LAMBDA v1 :
           [v1 EXCEPT !.strings = @ \cup {NewId(v1)}]))

\* ------------------------------------------------------------------- calls
\* a call that does not look at frame_count
callUnlimited(vm, callee, arg_count) ==
  Bind2(vm, ClosureFn(vm, callee).arity, LAMBDA v, arity :
    IF ~Running(v) THEN v
    ELSE IF arg_count # arity
    THEN runtime_error(v, "Expected " \o Display(arg_count)
                          \o " arguments but got " \o Display(arity))
    ELSE [v EXCEPT !.frames =
            Append(@, [closure |-> callee, ip |-> 0,
                       stack_offset |-> v.stack_index - arg_count - 1])])

call(vm, callee, arg_count) ==
  Bind2(vm, ClosureFn(vm, callee).arity, LAMBDA v, arity :
    IF ~Running(v) THEN v
    ELSE IF arg_count # arity
    THEN runtime_error(v, "Expected " \o Display(arg_count)
                          \o " arguments but got " \o Display(arity))
    ELSE IF frame_count(v) = FRAMES_MAX
    THEN runtime_error(v, "Stack overflow.")
    ELSE [v EXCEPT !.frames =
            Append(@, [closure |-> callee, ip |-> 0,
                       stack_offset |-> v.stack_index - arg_count - 1])])

call_value(vm, callee, arg_count) ==
  Bind(vm, LAMBDA v :
    IF ~Running(v) THEN v
    ELSE IF IsObj(callee) /\ v.cells[callee.n].t = "BoundMethod"
    THEN call([v EXCEPT !.stack[v.stack_index - arg_count - 1] =
                 v.cells[callee.n].receiver],
              v.cells[callee.n].method, arg_count)
    ELSE IF IsObj(callee) /\ v.cells[callee.n].t = "Class"
    THEN Bind(allocate(v, InstanceCell(callee.n), "none"), LAMBDA v1 :
           Bind([v1 EXCEPT !.stack[v.stack_index - arg_count - 1] =
                   ObjV(NewId(v1))], LAMBDA v2 :
             IF v.init_string \in DOMAIN v.cells[callee.n].methods
                /\ IsObj(v.cells[callee.n].methods[v.init_string])
             THEN call(v2, v.cells[callee.n].methods[v.init_string].n,
                       arg_count)
             ELSE IF arg_count # 0
             THEN runtime_error(v2, "Expected 0 arguments but got "
                                    \o Display(arg_count) \o ".")
             ELSE v2))
    ELSE IF IsObj(callee) /\ v.cells[callee.n].t = "Closure"
    THEN call(v, callee.n, arg_count)
    ELSE IF IsObj(callee) /\ v.cells[callee.n].t = "Native"
    THEN push([v EXCEPT !.stack_index = @ - (arg_count + 1)], NumberV(0))
    ELSE runtime_error(v, "Can only call functions and classes."))

\* ---------------------------------------------------------------- upvalues
\* a walk that compares the wrong way round: it passes the upvalues below
\* the slot instead of those above it
RECURSIVE WalkAscending(_, _, _, _)
WalkAscending(cs, previous, upvalue, local) ==
  IF upvalue # Null /\ cs[upvalue].location < local
  THEN WalkAscending(cs, upvalue, cs[upvalue].next, local)
  ELSE << previous, upvalue >>

\* the walk of capture_upvalue: << previous_upvalue, upvalue >> where it stops
RECURSIVE Walk(_, _, _, _)
Walk(cs, previous, upvalue, local) ==
  IF upvalue # Null /\ cs[upvalue].location > local
  THEN Walk(cs, upvalue, cs[upvalue].next, local)
  ELSE << previous, upvalue >>

\* capture_upvalue: the VM after the call and the upvalue it returns
capture_upvalue(vm, local, gc) ==
  Bind2(vm, Walk(vm.cells, Null, vm.open_upvalues, local), LAMBDA v, w :
    IF w[2] # Null /\ v.cells[w[2]].location = local
    THEN [vm |-> v, upvalue |-> w[2]]
    ELSE Bind(allocate(v, UpvalueCell(local), gc), LAMBDA v1 :
           [vm |-> IF w[1] = Null
                   THEN [v1 EXCEPT !.open_upvalues = NewId(v1)]
                   ELSE [v1 EXCEPT !.cells[w[1]].next = NewId(v1)],
            upvalue |-> NewId(v1)]))

RECURSIVE close_upvalues(_, _)
close_upvalues(vm, last) ==
  Bind(vm, LAMBDA v :
    IF v.open_upvalues # Null /\ v.cells[v.open_upvalues].location >= last
    THEN close_upvalues(
           [v EXCEPT
              !.cells[v.open_upvalues].closed =
                 v.stack[v.cells[v.open_upvalues].location],
              !.cells[v.open_upvalues].location = -1,
              !.open_upvalues = v.cells[v.open_upvalues].next],
           last)
    ELSE v)

\* ----------------------------------------------------------------- compile
\* the strings a compilation interns: function names and string constants
RECURSIVE ConstStrings(_)
ConstStrings(ks) ==
  IF ks = << >> THEN << >>
  ELSE (IF Head(ks).k = "str" THEN << Head(ks).s >> ELSE << >>)
       \o ConstStrings(Tail(ks))

RECURSIVE ProgStrings(_)
ProgStrings(fs) ==
  IF fs = << >> THEN << >>
  ELSE (IF Head(fs).name = "" THEN << >> ELSE << Head(fs).name >>)
       \o ConstStrings(Head(fs).consts) \o ProgStrings(Tail(fs))

RECURSIVE InternAll(_, _)
InternAll(vm, q) ==
  Bind(vm, LAMBDA v :
    IF q = << >> THEN v
    ELSE InternAll(copy_string(v, Head(q), "none"), Tail(q)))

ConstValue(v, ids, k) ==
  CASE k.k = "str" -> ObjV(StringId(v, k.s))
    [] k.k = "num" -> NumberV(k.n)
    [] OTHER -> ObjV(ids[k.n])

\* the function cells of program p, inner functions first; ids[i] is the
\* cell of function i
RECURSIVE MakeFunctions(_, _, _, _)
MakeFunctions(vm, p, i, made) ==
  Bind2(vm, made, LAMBDA v, ids :
    IF i = 0 THEN [vm |-> v, ids |-> ids]
    ELSE LET f == ProgramOf(v, p)[i]
             nm == IF f.name = "" THEN Null ELSE StringId(v, f.name)
             cell == [FunctionCell(p, i, nm) EXCEPT
                        !.consts = [j \in DOMAIN f.consts |->
                                      ConstValue(v, ids, f.consts[j])]]
         IN Bind(allocate(v, cell, "none"), LAMBDA v1 :
              MakeFunctions(v1, p, i - 1, [ids EXCEPT ![i] = NewId(v1)])))

\* compile: the script function of program p and the cells of everything its
\* chunks refer to.  The functions under compilation are roots, so a
\* collection during a compilation frees what one at its start frees.
compile(v, p, gc) ==
  Bind(MakeFunctions(
         InternAll(IF gc = "none" THEN v ELSE collect_garbage(v, gc),
                   ProgStrings(ProgramOf(v, p))),
         p, Len(ProgramOf(v, p)), [i \in DOMAIN ProgramOf(v, p) |-> Null]),
       LAMBDA r : [vm |-> r.vm, function |-> r.ids[1]])

new_closure(vm, function, gc) ==
  Bind(vm, LAMBDA v :
    allocate(v, ClosureCell(function, FnOf(v, function).upvalue_count), gc))

interpret(v, p, gc1, gc2) ==
  Bind(compile([v EXCEPT !.status = "running", !.lines = Append(@, p)],
               p, gc1), LAMBDA c :
    Bind(push(c.vm, ObjV(c.function)), LAMBDA v1 :
      IF ~Running(v1) THEN v1
      ELSE Bind(new_closure(v1, c.function, gc2), LAMBDA v2 :
             call(push(pop(v2), ObjV(NewId(v2))), NewId(v2), 0))))

\* ------------------------------------------------------------- instructions
Code(v) == current_chunk(v).code
Ip(v) == current_frame(v).ip
\* the byte k places after the opcode being executed
Operand(v, k) == Code(v)[Ip(v) + 1 + k]
Advance(v, n) == [v EXCEPT !.frames[Len(v.frames)].ip = @ + n]
\* constants[index] of the current chunk
Constant(v, index) ==
  v.cells[v.cells[current_frame(v).closure].function].consts[index + 1]

DisplayFunction(v, f) ==
  IF v.cells[f].t # "Function" THEN "<garbage>"
  ELSE IF v.cells[f].name = Null THEN "<script>"
  ELSE v.cells[v.cells[f].name].s

\* Display for Value
DisplayValue(v, val) ==
  CASE val.k = "nil" -> "nil"
    [] val.k = "bool" -> (IF val.n = 1 THEN "true" ELSE "false")
    [] val.k = "num" -> Display(val.n)
    [] OTHER ->
       LET c == v.cells[val.n]
       IN CASE c.t = "String" -> c.s
            [] c.t = "Closure" -> DisplayFunction(v, c.function)
            [] c.t = "Function" -> DisplayFunction(v, val.n)
            [] c.t = "Native" -> "<native fn>"
            [] c.t = "Upvalue" -> "upvalue"
            [] c.t = "Class" -> v.cells[c.name].s
            [] c.t = "Instance" ->
                 v.cells[v.cells[c.class].name].s \o " instance"
            [] c.t = "BoundMethod" ->
                 DisplayFunction(v, v.cells[c.method].function)
            [] OTHER -> "<garbage>"

\* constants[index] panics when the chunk has no such constant
ExecConstant(vm) ==
  Bind(vm, LAMBDA v :
    IF Operand(v, 1) >= Len(current_chunk(v).consts)
    THEN [Advance(v, 2) EXCEPT !.status = "panic"]
    ELSE push(Advance(v, 2), Constant(v, Operand(v, 1))))

ExecNil(vm) == Bind(vm, LAMBDA v : push(Advance(v, 1), NilV))

ExecPop(vm) == Bind(vm, LAMBDA v : pop(Advance(v, 1)))

ExecPrint(vm) ==
  Bind(vm, LAMBDA v :
    Bind(pop(Advance(v, 1)), LAMBDA v1 :
      IF ~Running(v1) THEN v1
      ELSE [v1 EXCEPT !.out = Append(@, DisplayValue(v, Top(v)))]))

ExecGetLocal(vm) ==
  Bind(vm, LAMBDA v :
    push(Advance(v, 2),
         v.stack[Operand(v, 1) + current_frame(v).stack_offset]))

ExecGetGlobal(vm) ==
  Bind2(vm, Constant(vm, Operand(vm, 1)), LAMBDA v, name :
    IF name.n \in DOMAIN v.globals
    THEN push(Advance(v, 2), v.globals[name.n])
    ELSE runtime_error(Advance(v, 2),
                       "Undefined variable " \o v.cells[name.n].s))

ExecDefineGlobal(vm) ==
  Bind2(vm, Constant(vm, Operand(vm, 1)), LAMBDA v, name :
    pop([Advance(v, 2) EXCEPT !.globals =
           [k \in DOMAIN @ \cup {name.n} |->
              IF k = name.n THEN peek(v, 0) ELSE @[k]]]))

\* SetGlobal that defines the name when it is absent
ExecSetGlobalDefine(vm) ==
  Bind2(vm, Constant(vm, Operand(vm, 1)), LAMBDA v, name :
    [Advance(v, 2) EXCEPT !.globals =
       [k \in DOMAIN @ \cup {name.n} |->
          IF k = name.n THEN peek(v, 0) ELSE @[k]]])

ExecSetGlobal(vm) ==
  Bind2(vm, Constant(vm, Operand(vm, 1)), LAMBDA v, name :
    IF name.n \in DOMAIN v.globals
    THEN [Advance(v, 2) EXCEPT !.globals[name.n] = peek(v, 0)]
    ELSE runtime_error(Advance(v, 2),
                       "Undefined variable '" \o v.cells[name.n].s \o "'"))

\* the upvalue the instruction's operand names
Slot(v) == v.cells[current_frame(v).closure].upvalues[Operand(v, 1) + 1]

ExecGetUpvalue(vm) ==
  Bind2(vm, Slot(vm), LAMBDA v, slot :
    push(Advance(v, 2),
         IF v.cells[slot].location = -1
         THEN v.cells[slot].closed
         ELSE v.stack[v.cells[slot].location]))

ExecSetUpvalue(vm) ==
  Bind2(vm, Slot(vm), LAMBDA v, slot :
    IF v.cells[slot].location = -1
    THEN [Advance(v, 2) EXCEPT !.cells[slot].closed = peek(v, 0)]
    ELSE [Advance(v, 2) EXCEPT !.stack[v.cells[slot].location] = peek(v, 0)])

\* vm.concatenate_strings: the operands stay on the stack while the result
\* is allocated
concatenate_strings(vm, gc) ==
  Bind2(vm, vm.cells[peek(vm, 1).n].s \o vm.cells[peek(vm, 0).n].s,
        LAMBDA v, content :
    Bind(copy_string(v, content, gc), LAMBDA v1 :
      push(pop(pop(v1)), ObjV(StringId(v1, content)))))

ExecAdd(vm, gc) ==
  Bind(vm, LAMBDA v :
    IF IsString(v, peek(v, 0)) /\ IsString(v, peek(v, 1))
    THEN concatenate_strings(Advance(v, 1), gc)
    ELSE IF IsNumber(peek(v, 0)) /\ IsNumber(peek(v, 1))
    THEN push(pop(pop(Advance(v, 1))), NumberV(peek(v, 1).n + peek(v, 0).n))
    ELSE runtime_error(Advance(v, 1),
                       "Operands must be two numbers or two strings."))

ExecCall(vm) ==
  Bind2(vm, Operand(vm, 1), LAMBDA v, arg_count :
    call_value(Advance(v, 2), peek(v, arg_count), arg_count))

\* the loop of the Closure instruction over upvalues i .. n-1
RECURSIVE Captures(_, _, _, _, _)
Captures(vm, closure, i, n, gcs) ==
  Bind(vm, LAMBDA v :
    IF i = n THEN v
    ELSE IF Operand(v, 0) # 0
    THEN Bind(capture_upvalue(
                Advance(v, 2),
                current_frame(v).stack_offset + Operand(v, 1),
                gcs[i + 2]), LAMBDA r :
           Captures(
             [r.vm EXCEPT !.cells[closure].upvalues[i + 1] = r.upvalue],
             closure, i + 1, n, gcs))
    ELSE Captures(
           [Advance(v, 2) EXCEPT !.cells[closure].upvalues[i + 1] =
              v.cells[current_frame(v).closure].upvalues[Operand(v, 1) + 1]],
           closure, i + 1, n, gcs))

ExecClosure(vm, gcs) ==
  Bind2(vm, Constant(vm, Operand(vm, 1)).n, LAMBDA v, function :
    Bind(new_closure(Advance(v, 2), function, gcs[1]), LAMBDA v1 :
      Bind(push(v1, ObjV(NewId(v1))), LAMBDA v2 :
        IF ~Running(v2) THEN v2
        ELSE Captures(v2, NewId(v1), 0,
                      FnOf(v, function).upvalue_count, gcs))))

ExecCloseUpvalue(vm) ==
  Bind(vm, LAMBDA v :
    pop(close_upvalues(Advance(v, 1), v.stack_index - 1)))

ExecReturn(vm) ==
  Bind(vm, LAMBDA v :
    Bind(pop(Advance(v, 1)), LAMBDA v1 :
      IF ~Running(v1) THEN v1
      ELSE Bind([v1 EXCEPT !.frames = SubSeq(@, 1, Len(@) - 1)], LAMBDA v2 :
             IF frame_count(v2) = 0
             THEN Bind(pop(v2), LAMBDA v3 :
                    IF Running(v3) THEN [v3 EXCEPT !.status = "ok"] ELSE v3)
             ELSE push([v2 EXCEPT !.stack_index =
                          current_frame(v).stack_offset],
                       Top(v)))))

\* -------------------------------------------------------------------- init
\* VM::new: the "init" string, then define_native("clock"), which pushes and
\* pops the name and the native
InitVM ==
  [frames |-> << >>,
   stack |-> [i \in 0 .. StackSlots - 1 |->
                CASE i = 0 -> ObjV(2) [] i = 1 -> ObjV(3) [] OTHER -> NumberV(0)],
   stack_index |-> 0,
   strings |-> {1, 2},
   globals |-> (2 :> ObjV(3)),
   cells |-> << StringCell("init"), StringCell("clock"), NativeCell >>,
   gray_stack |-> {},
   objects |-> << 3, 2, 1 >>,
   init_string |-> 1,
   open_upvalues |-> Null,
   out |-> << >>,
   err |-> << >>,
   status |-> "idle",
   lines |-> << >>,
   chunks |-> << >>]

\* VM::new: next_gc is 1024 * 1024
NEXT_GC_INITIAL == 1048576

\* the heap's bytes: those of the objects the roots reach, the number of
\* interned strings no root reaches and the bytes of the other objects no
\* root reaches.  allocated, collections, after_collection and removed are
\* history: the calls of allocate, the collections run, bytes_allocated at
\* the end of the last collection, and the strings that have left the
\* interner.  dropped: the VM has been dropped.
EmptyHeap ==
  [reachable |-> 0, white_strings |-> 0, white_bytes |-> 0,
   allocated |-> 0, collections |-> 0, after_collection |-> 0,
   removed |-> 0, dropped |-> FALSE]

\* gc.rs: the program holds no handle, and the GcCell is as GcCell::new
\* leaves it
BorrowFlag_ROOT == 128
BorrowFlag_NEW == BorrowFlag_ROOT
GcCell_new ==
  [flags |-> BorrowFlag_NEW, refs |-> 0, ref_muts |-> 0, panicked |-> FALSE]

InitGc ==
  /\ handles = << >>
  /\ gc_cell = GcCell_new

InitHeap ==
  /\ bytes_allocated = 0
  /\ next_gc = NEXT_GC_INITIAL
  /\ heap = EmptyHeap
  /\ InitGc

InitValues ==
  /\ allocations = << >>
  /\ lhs = NilV
  /\ rhs = NilV
  /\ equal_result = "none"
  /\ InitHeap

\* no compilation has been started
NoParser ==
  [result |-> "none", had_error |-> FALSE, err |-> << >>,
   statement_starts |-> {}, compiled |-> {}]

\* the VM after VM::new
InitVMState ==
  /\ frames = InitVM.frames
  /\ stack = InitVM.stack
  /\ stack_index = InitVM.stack_index
  /\ strings = InitVM.strings
  /\ globals = InitVM.globals
  /\ cells = InitVM.cells
  /\ gray_stack = InitVM.gray_stack
  /\ objects = InitVM.objects
  /\ init_string = InitVM.init_string
  /\ open_upvalues = InitVM.open_upvalues
  /\ out = InitVM.out
  /\ err = InitVM.err
  /\ status = InitVM.status
  /\ lines = InitVM.lines
  /\ chunks = InitVM.chunks

InitMachine ==
  /\ InitVMState
  /\ src_text = << >>
  /\ parser = NoParser
  /\ calls = << >>

Init == InitMachine /\ InitValues

\* ----------------------------------------------------------------- actions
\* one step of the machine: the handler's result becomes the next state
Step(vm) == \E v \in {vm} : Commit(v)

\* the opcode run() is about to read, -1 when nothing is running
CurOp ==
  IF status = "running" /\ frames # << >> /\ Ip(VM) < Len(Code(VM))
  THEN Operand(VM, 0) ELSE -1

\* VM::interpret up to the call of run(); main's REPL calls it once per line
Interpret ==
  /\ status # "running"
  /\ Len(lines) < MaxLines
  /\ \E p \in ClosureSession, gc1 \in GcModes, gc2 \in GcModes :
       Step(interpret(VM, p, gc1, gc2))

OpConstant == CurOp = OP_CONSTANT /\ Step(ExecConstant(VM))
OpNil == CurOp = OP_NIL /\ Step(ExecNil(VM))
OpPop == CurOp = OP_POP /\ Step(ExecPop(VM))
OpPrint == CurOp = OP_PRINT /\ Step(ExecPrint(VM))
OpGetLocal == CurOp = OP_GET_LOCAL /\ Step(ExecGetLocal(VM))
OpGetGlobal == CurOp = OP_GET_GLOBAL /\ Step(ExecGetGlobal(VM))
OpDefineGlobal == CurOp = OP_DEFINE_GLOBAL /\ Step(ExecDefineGlobal(VM))
OpSetGlobal == CurOp = OP_SET_GLOBAL /\ Step(ExecSetGlobal(VM))
OpGetUpvalue == CurOp = OP_GET_UPVALUE /\ Step(ExecGetUpvalue(VM))
OpSetUpvalue == CurOp = OP_SET_UPVALUE /\ Step(ExecSetUpvalue(VM))
OpAdd == CurOp = OP_ADD /\ \E gc \in GcModes : Step(ExecAdd(VM, gc))
OpCall == CurOp = OP_CALL /\ Step(ExecCall(VM))
OpClosure ==
  /\ CurOp = OP_CLOSURE
  /\ \E gcs \in [1 .. 1 + FnOf(VM, Constant(VM, Operand(VM, 1)).n).upvalue_count
                   -> GcModes] :
       Step(ExecClosure(VM, gcs))
OpCloseUpvalue == CurOp = OP_CLOSE_UPVALUE /\ Step(ExecCloseUpvalue(VM))
OpReturn == CurOp = OP_RETURN /\ Step(ExecReturn(VM))

Next ==
  \/ Interpret
  \/ OpConstant
  \/ OpNil
  \/ OpPop
  \/ OpPrint
  \/ OpGetLocal
  \/ OpGetGlobal
  \/ OpDefineGlobal
  \/ OpSetGlobal
  \/ OpGetUpvalue
  \/ OpSetUpvalue
  \/ OpAdd
  \/ OpCall
  \/ OpClosure
  \/ OpCloseUpvalue
  \/ OpReturn

Spec == Init /\ [][Next]_vars

\* a session of lines that recurse: the VM's limits
InterpretRecursion ==
  /\ status # "running"
  /\ Len(lines) < MaxLines
  /\ \E p \in RecursionSession, gc1 \in GcModes, gc2 \in GcModes :
       Step(interpret(VM, p, gc1, gc2))

NextLimit ==
  \/ InterpretRecursion
  \/ OpConstant
  \/ OpNil
  \/ OpPop
  \/ OpPrint
  \/ OpGetLocal
  \/ OpGetGlobal
  \/ OpDefineGlobal
  \/ OpGetUpvalue
  \/ OpCall
  \/ OpClosure
  \/ OpReturn

SpecLimit == Init /\ [][NextLimit]_vars

\* the modelled programs stay inside the modelled part of the stack
StackInModel == stack_index <= StackSlots

\* ------------------------------------------------------ upvalue properties
LiveCells == SeqToSet(objects)
OpenUpvalueList == UpvalueList(cells, open_upvalues)
IsOpen(u) == cells[u].t = "Upvalue" /\ cells[u].location # -1

\* the upvalue cells the live closures refer to
CapturedUpvalues ==
  UNION {SeqToSet(cells[c].upvalues) :
           c \in {o \in LiveCells : cells[o].t = "Closure"}} \ {Null}

\* the upvalues that are open on a slot at or above slot base
OpenAtOrAbove(base) ==
  {u \in LiveCells : IsOpen(u) /\ cells[u].location >= base}

\* C2: executing Return closes every open upvalue whose slot is at or above
\* the returning frame's base: afterwards it is closed and its closed value
\* is the value the slot held when Return ran.
ReturnClosesUpvalues ==
  [][(CurOp = OP_RETURN /\ stack_index > 0) =>
       \A u \in OpenAtOrAbove(current_frame(VM).stack_offset) :
         /\ cells'[u].location = -1
         /\ cells'[u].closed = stack[cells[u].location]]_vars

\* C3: every open upvalue a closure refers to is a member of the
\* open-upvalue list.
OpenUpvaluesListed ==
  \A u \in CapturedUpvalues : IsOpen(u) => u \in SeqToSet(OpenUpvalueList)

\* C4: at most one open upvalue exists per stack slot, so closures that
\* capture the same variable share one upvalue cell.
OneOpenUpvaluePerSlot ==
  \A u1 \in CapturedUpvalues, u2 \in CapturedUpvalues :
    (IsOpen(u1) /\ IsOpen(u2) /\ cells[u1].location = cells[u2].location)
      => u1 = u2

\* C5: the open-upvalue list is strictly descending by location: each
\* element's slot is strictly greater than its successor's.
OpenUpvaluesDescending ==
  \A i \in 1 .. Len(OpenUpvalueList) - 1 :
    cells[OpenUpvalueList[i]].location > cells[OpenUpvalueList[i + 1]].location

\* C5 witness: a list of two upvalues or more, built by captures made after
\* close_upvalues has closed an upvalue
DescendingListAfterClose ==
  /\ Len(OpenUpvalueList) >= 2
  /\ \E u \in LiveCells : cells[u].t = "Upvalue" /\ cells[u].location = -1

\* --------------------------------------------------------- error properties
\* C6: after interpret ends with a runtime error all call frames are
\* unwound: frame_count = 0 and the value stack is empty.
ErrorUnwindsFrames ==
  status = "error" => (Len(frames) = 0 /\ stack_index = 0)

\* the call a step is about to make: Call on a closure with as many
\* arguments as it has parameters, or interpret's call of the script
CallsClosure ==
  \/ status # "running"
  \/ /\ CurOp = OP_CALL
     /\ IsObj(peek(VM, Operand(VM, 1)))
     /\ cells[peek(VM, Operand(VM, 1)).n].t = "Closure"
     /\ ClosureFn(VM, peek(VM, Operand(VM, 1)).n).arity = Operand(VM, 1)

LastLine == Programs[lines[Len(lines)]]

\* C11: frame_count never exceeds FRAMES_MAX; a call made while FRAMES_MAX
\* frames are active fails with "Stack overflow." and pushes no frame, and
\* the line that recurses without bound never ends normally.
FramesBounded ==
  [][/\ Len(frames') <= FRAMES_MAX
     /\ stack_index' <= STACK_LIMIT
     /\ (Len(frames) = FRAMES_MAX /\ CallsClosure)
          => (/\ status' = "error"
              /\ err'[Len(err')].msg = "Stack overflow."
              /\ Len(frames') = Len(frames))
     /\ (status' = "ok" => LastLine' # ProgG)]_vars

\* C11 witness: the recursion was stopped at FRAMES_MAX frames
RecursionStopped ==
  /\ status = "error"
  /\ LastLine = ProgG
  /\ Len(frames) = FRAMES_MAX
  /\ err[Len(err)].msg = "Stack overflow."

\* C10: calling a closure with an argument count different from its arity
\* fails with "Expected N arguments but got M", N the declared arity and M
\* the number of arguments supplied, and pushes no call frame.
ArityErrorMessage ==
  [][(/\ CurOp = OP_CALL
      /\ IsObj(peek(VM, Operand(VM, 1)))
      /\ cells[peek(VM, Operand(VM, 1)).n].t = "Closure"
      /\ ClosureFn(VM, peek(VM, Operand(VM, 1)).n).arity # Operand(VM, 1))
     =>
     (/\ status' = "error"
      /\ frames' = Advance(VM, 2).frames
      /\ err' = Append(err,
           [msg |-> "Expected "
                    \o Display(ClosureFn(VM, peek(VM, Operand(VM, 1)).n).arity)
                    \o " arguments but got " \o Display(Operand(VM, 1)),
            trace |-> Trace(Advance(VM, 2), Len(frames)),
            lines |-> TraceLines(Advance(VM, 2), Len(frames))]))]_vars

\* ------------------------------------------------------------ gc properties
\* what the program can reach through one cell: the references the cell
\* holds; an open upvalue refers, through its location, to the value in
\* that stack slot
ProgramRefs(v, o) ==
  LET c == v.cells[o]
  IN IF c.t = "Upvalue" /\ c.location # -1
     THEN ValueRefs(v.stack[c.location])
     ELSE Refs(c) \ {Null}

RECURSIVE ReachFrom(_, _, _)
ReachFrom(v, gray, seen) ==
  IF gray = {} THEN seen
  ELSE LET o == CHOOSE x \in gray : TRUE
           new == ProgramRefs(v, o) \ seen
       IN ReachFrom(v, (gray \ {o}) \cup new, seen \cup new)

\* the heap objects reachable from the root set
Reachable(v) ==
  LET roots == RootIds(v) \ {Null}
  IN ReachFrom(v, roots, roots) \cap SeqToSet(v.objects)

\* C1: every heap object reachable from the roots before a collection is
\* still on the heap list after it, and no surviving cell refers to a string
\* the collection removed from the interner.
CollectionKeepsReachable ==
  [][/\ Reachable(VM) \subseteq SeqToSet(objects')
     /\ \A o \in SeqToSet(objects') \cap SeqToSet(objects) :
          ProgramRefs(VM, o) \cap (strings \ strings') = {}]_vars

\* ------------------------------------------------------- the reference run
\* one iteration of run()'s loop, no collection at any allocation
StepNoGc(v) ==
  LET op == Operand(v, 0)
  IN CASE op = OP_CONSTANT -> ExecConstant(v)
       [] op = OP_NIL -> ExecNil(v)
       [] op = OP_POP -> ExecPop(v)
       [] op = OP_PRINT -> ExecPrint(v)
       [] op = OP_GET_LOCAL -> ExecGetLocal(v)
       [] op = OP_GET_GLOBAL -> ExecGetGlobal(v)
       [] op = OP_DEFINE_GLOBAL -> ExecDefineGlobal(v)
       [] op = OP_SET_GLOBAL -> ExecSetGlobal(v)
       [] op = OP_GET_UPVALUE -> ExecGetUpvalue(v)
       [] op = OP_SET_UPVALUE -> ExecSetUpvalue(v)
       [] op = OP_ADD -> ExecAdd(v, "none")
       [] op = OP_CALL -> ExecCall(v)
       [] op = OP_CLOSURE ->
            ExecClosure(v, [i \in 1 .. 1 + FnOf(v, Constant(v, Operand(v, 1)).n)
                                            .upvalue_count |-> "none"])
       [] op = OP_CLOSE_UPVALUE -> ExecCloseUpvalue(v)
       [] OTHER -> ExecReturn(v)

RECURSIVE RunNoGc(_)
RunNoGc(v) == IF Running(v) THEN RunNoGc(StepNoGc(v)) ELSE v

\* the VM after interpreting the lines ls one after the other, never
\* collecting
RECURSIVE Reference(_)
Reference(ls) ==
  IF ls = << >> THEN InitVM
  ELSE RunNoGc(interpret(Reference(SubSeq(ls, 1, Len(ls) - 1)),
                         ls[Len(ls)], "none", "none"))

\* what a run shows: its output, its globals by name, its result
Observable(v) ==
  [out |-> v.out,
   globals |-> {<< v.cells[k].s, DisplayValue(v, v.globals[k]) >> :
                  k \in DOMAIN v.globals},
   result |-> v.status,
   err |-> v.err]

\* C7: whatever the allocations at which a collection runs, interpret prints
\* the same output, leaves the same globals and returns the same result as
\* the run that never collects.
CollectionTimingUnobservable ==
  status \in {"ok", "error"} => Observable(VM) = Observable(Reference(lines))

\* ------------------------------------------- value.rs: creating strings
\* the source texts handed to copy_string
Sources == {"a", "b"}
\* number of boxes on the allocation list
MaxAllocations == 3

\* the values in the boxes: an ObjString with its text, an ObjUpvalue with
\* its next handle (Null for None)
ObjString(string) == [string |-> string, next |-> Null]
ObjUpvalue == [string |-> "", next |-> Null]

\* the address of a new box: the first one that no box, handle or field
\* holds
FreshId(al, held) ==
  LET used == {al[i].id : i \in DOMAIN al}
              \cup {al[i].value.next : i \in DOMAIN al} \cup held
      free == (1 .. Cardinality(used) + 1) \ used
  IN  CHOOSE x \in free : \A y \in free : x <= y

\* GcBox::new: unmarked, one root.  kept and into_survivor are history:
\* whether the box came through a collection while no handle outside the
\* heap referred to it, and whether the box it was stored into had come
\* through a collection before.
GcBox(id, value) ==
  [id |-> id, value |-> value, roots |-> 1, is_marked |-> FALSE,
   kept |-> FALSE, into_survivor |-> FALSE]

HasBox(al, id) == \E i \in DOMAIN al : al[i].id = id
BoxAt(al, id) == CHOOSE i \in DOMAIN al : al[i].id = id

\* GcBox::root_inner and GcBox::unroot_inner
root_inner(al, id) == [al EXCEPT ![BoxAt(al, id)].roots = @ + 1]
unroot_inner(al, id) == [al EXCEPT ![BoxAt(al, id)].roots = @ - 1]

\* Clone for Gc<T>: one more root, and a second rooted handle
Gc_cloneUncounted(al, id) == al
Gc_clone(al, id) == root_inner(al, id)

\* Drop for Gc<T>: every handle is rooted (GcCell leaves root and unroot at
\* the trait's empty defaults, so nothing clears a handle's root bit), and
\* its root is given up
Gc_drop(al, id) == IF HasBox(al, id) THEN unroot_inner(al, id) ELSE al

\* GcBox::trace_inner: an unmarked box is marked and its value traced; the
\* trace of an ObjUpvalue traces its next handle
RECURSIVE trace_inner(_, _)
trace_inner(al, id) ==
  IF ~HasBox(al, id) \/ al[BoxAt(al, id)].is_marked THEN al
  ELSE LET marked == [al EXCEPT ![BoxAt(al, id)].is_marked = TRUE]
           next == al[BoxAt(al, id)].value.next
       IN  IF next = Null THEN marked ELSE trace_inner(marked, next)

\* the first loop of collect_garbage, from the i-th box of the list on
RECURSIVE MarkRooted(_, _)
MarkRooted(al, i) ==
  IF i > Len(al) THEN al
  ELSE MarkRooted(IF al[i].roots > 0 THEN trace_inner(al, al[i].id) ELSE al,
                  i + 1)

\* the second loop: an unmarked box is unlinked and dropped, and with it the
\* handle in its value; a marked box keeps its mark
RECURSIVE SweepBoxes(_, _)
SweepBoxes(al, ids) ==
  IF ids = << >> THEN al
  ELSE LET box == al[BoxAt(al, Head(ids))]
       IN  IF box.is_marked THEN SweepBoxes(al, Tail(ids))
           ELSE SweepBoxes(
                  LET rest == SelectSeq(al, LAMBDA x : x.id # box.id)
                  IN  IF box.value.next = Null THEN rest
                      ELSE Gc_drop(rest, box.value.next),
                  Tail(ids))

\* GcState::collect_garbage: trace the rooted boxes, free the unmarked ones
GcState_collect_garbage(al) ==
  SweepBoxes(MarkRooted(al, 1), [i \in DOMAIN al |-> al[i].id])

\* Gc::new: collect, then link the new box at the head; unroot on the
\* GcCell is the trait's empty default
Gc_new(al, value) ==
  << GcBox(FreshId(al, {}), value) >> \o GcState_collect_garbage(al)

\* ObjString::new in a Value
create_string_value(al, source) == Gc_new(al, ObjString(source))
value_copy_string(al, source) == create_string_value(al, source)
value_concatenate_strings(al, a, b) == create_string_value(al, a \o b)

CopyString ==
  /\ Len(allocations) < MaxAllocations
  /\ \E source \in Sources :
       allocations' = value_copy_string(allocations, source)
  /\ UNCHANGED << vm_vars, compile_vars, lhs, rhs, equal_result, heap_vars,
                  gc_vars >>

ConcatenateStrings ==
  /\ Len(allocations) < MaxAllocations
  /\ \E i \in DOMAIN allocations, j \in DOMAIN allocations :
       /\ allocations[i].roots > 0 /\ allocations[j].roots > 0
       /\ allocations[i].value.string \in Sources
       /\ allocations[j].value.string \in Sources
       /\ allocations' = value_concatenate_strings(
                           allocations, allocations[i].value.string,
                           allocations[j].value.string)
  /\ UNCHANGED << vm_vars, compile_vars, lhs, rhs, equal_result, heap_vars,
                  gc_vars >>

\* Drop for Gc<T>: the handle's root is given up
DropString ==
  /\ \E i \in DOMAIN allocations :
       /\ allocations[i].roots > 0
       /\ allocations' = [allocations EXCEPT ![i].roots = @ - 1]
  /\ UNCHANGED << vm_vars, compile_vars, lhs, rhs, equal_result, heap_vars,
                  gc_vars >>

NextStrings == CopyString \/ ConcatenateStrings \/ DropString

SpecStrings == Init /\ [][NextStrings]_vars

\* C8: there is at most one live string cell per distinct content: creating
\* strings of equal content yields the same cell.
OneCellPerContent ==
  \A i \in DOMAIN allocations, j \in DOMAIN allocations :
    (/\ allocations[i].roots > 0
     /\ allocations[j].roots > 0
     /\ allocations[i].value.string = allocations[j].value.string) => i = j

\* -------------------------------------------------- value.rs: Value equality
\* a heap of the rooted-handle object model: obj_type, the string of an
\* ObjString, and the struct's other fields (handles by cell, then scalars)
EqCell(t, string, refs, data) ==
  [t |-> t, string |-> string, refs |-> refs, data |-> data]

EqHeap ==
  << EqCell("String", "a", << >>, << >>),
     EqCell("String", "a", << >>, << >>),
     EqCell("String", "Foo", << >>, << >>),
     EqCell("Function", "", << 1 >>, << 0, 0 >>),
     EqCell("Class", "", << 3 >>, << >>),
     EqCell("Class", "", << 3 >>, << >>),
     EqCell("Instance", "", << 5 >>, << >>),
     EqCell("Instance", "", << 5 >>, << >>),
     EqCell("Closure", "", << 4 >>, << >>),
     EqCell("Closure", "", << 4 >>, << >>),
     EqCell("BoundMethod", "", << 7, 9 >>, << >>),
     EqCell("BoundMethod", "", << 7, 9 >>, << >>),
     EqCell("Native", "", << >>, << 0 >>) >>

EqValues ==
  {NilV, BoolV(TRUE), BoolV(FALSE), NumberV(0), NumberV(1)}
  \cup {ObjV(id) : id \in DOMAIN EqHeap}

value_type(val) == IF IsObj(val) THEN EqHeap[val.n].t ELSE val.k

\* impl PartialEq for Object
Object_eq(c1, c2) ==
  IF c1.t = "String" /\ c2.t = "String" THEN c1.string = c2.string ELSE FALSE

\* impl PartialEq for Gc<T>: the borrowed contents are compared.  ObjString
\* compares the text; the other object types derive PartialEq, field by
\* field from the obj header on.
RECURSIVE Gc_eq(_, _)
Gc_eq(a, b) ==
  LET c1 == EqHeap[a]
      c2 == EqHeap[b]
  IN IF c1.t = "String" /\ c2.t = "String" THEN c1.string = c2.string
     ELSE /\ c1.t = c2.t
          /\ Object_eq(c1, c2)
          /\ Len(c1.refs) = Len(c2.refs)
          /\ \A i \in DOMAIN c1.refs : Gc_eq(c1.refs[i], c2.refs[i])
          /\ c1.data = c2.data

\* #[derive(PartialEq)] enum Value
Value_eq_derive(x, y) ==
  /\ value_type(x) = value_type(y)
  /\ IF IsObj(x) THEN Gc_eq(x.n, y.n) ELSE x.n = y.n

\* impl PartialEq for Value under cfg(nan_boxing)
Value_eq_nan_boxing(x, y) ==
  CASE value_type(x) = "nil" /\ value_type(y) = "nil" -> TRUE
    [] value_type(x) = "bool" /\ value_type(y) = "bool" -> x.n = y.n
    [] value_type(x) = "num" /\ value_type(y) = "num" -> x.n = y.n
    [] value_type(x) = "String" /\ value_type(y) = "String" ->
         EqHeap[x.n].string = EqHeap[y.n].string
    [] OTHER -> FALSE

Builds == {"derive", "nan_boxing"}

Value_eq(build, x, y) ==
  IF build = "derive" THEN Value_eq_derive(x, y) ELSE Value_eq_nan_boxing(x, y)

InitEqual ==
  /\ InitMachine
  /\ allocations = << >>
  /\ lhs \in EqValues
  /\ rhs \in EqValues
  /\ equal_result = "none"
  /\ InitHeap

\* OpCode::Equal: a == b
Equal ==
  /\ equal_result = "none"
  /\ \E build \in Builds :
       equal_result' = IF Value_eq(build, lhs, rhs) THEN "true" ELSE "false"
  /\ UNCHANGED << vm_vars, compile_vars, allocations, lhs, rhs, heap_vars,
                  gc_vars >>

NextEqual == Equal

SpecEqual == InitEqual /\ [][NextEqual]_vars

IsNonStringObject(val) == IsObj(val) /\ value_type(val) # "String"

\* C9: Equal on two object values that are not strings yields true iff both
\* operands are the same heap cell.
EqualIsIdentity ==
  (equal_result # "none" /\ IsNonStringObject(lhs) /\ IsNonStringObject(rhs))
    => (equal_result = "true" <=> lhs.n = rhs.n)

\* ------------------------------------------------------ scanner.rs: tokens
\* A source is a sequence of lexemes: the scanner's grouping of characters
\* into lexemes is taken as given, blanks and newlines are lexemes of their
\* own, so that the end of the source and the EOF token stay distinct.
Keywords ==
  [and |-> "And", class |-> "Class", else |-> "Else", false |-> "False",
   for |-> "For", fun |-> "Fun", if |-> "If", nil |-> "Nil", or |-> "Or",
   print |-> "Print", return |-> "Return", super |-> "Super",
   this |-> "This", true |-> "True", var |-> "Var", while |-> "While"]

Punctuation ==
  ("(" :> "LeftParen") @@ (")" :> "RightParen") @@ ("{" :> "LeftBrace") @@
  ("}" :> "RightBrace") @@ ("," :> "Comma") @@ ("." :> "Dot") @@
  ("-" :> "Minus") @@ ("+" :> "Plus") @@ (";" :> "Semicolon") @@
  ("/" :> "Slash") @@ ("*" :> "Star") @@ ("!" :> "Bang") @@
  ("!=" :> "BangEqual") @@ ("=" :> "Equal") @@ ("==" :> "EqualEqual") @@
  (">" :> "Greater") @@ (">=" :> "GreaterEqual") @@ ("<" :> "Less") @@
  ("<=" :> "LessEqual")

\* the number lexemes and the values str::parse gives them
Numerals == ("0" :> 0) @@ ("1" :> 1) @@ ("2" :> 2) @@ ("3" :> 3)
\* the string lexemes, quotes included, and the text between the quotes
StringLiterals == ("\"s\"" :> "s") @@ ("\"t\"" :> "t")
\* a string that runs to the end of the source
UnterminatedString == "\"u"
\* ' ', '\r', '\t' and a // comment are skipped; '\n' also counts a line
Blanks == {" ", "//c"}
Newline == "\n"

\* Scanner::is_at_end: nothing of the source is left
is_at_end(p) == p.pos > Len(src_text)

\* Scanner::skip_whitespace, from position pos on line line
RECURSIVE skip_whitespace(_, _)
skip_whitespace(pos, line) ==
  IF pos > Len(src_text) THEN [pos |-> pos, line |-> line]
  ELSE IF src_text[pos] \in Blanks THEN skip_whitespace(pos + 1, line)
  ELSE IF src_text[pos] = Newline THEN skip_whitespace(pos + 1, line + 1)
  ELSE [pos |-> pos, line |-> line]

Token(kind, string, line) == [kind |-> kind, string |-> string, line |-> line]
\* Token::default
DefaultToken == Token("Error", "", 0)

\* the kind of the token made from one lexeme, and its text: an error
\* token carries its message
make_token(lexeme, line) ==
  CASE lexeme \in DOMAIN Punctuation -> Token(Punctuation[lexeme], lexeme, line)
    [] lexeme \in DOMAIN Keywords -> Token(Keywords[lexeme], lexeme, line)
    [] lexeme \in DOMAIN Numerals -> Token("Number", lexeme, line)
    [] lexeme \in DOMAIN StringLiterals -> Token("String", lexeme, line)
    [] lexeme = UnterminatedString -> Token("Error", "Unterminated String.", line)
    [] lexeme = "@" -> Token("Error", "Unexpected character.", line)
    [] OTHER -> Token("Identifier", lexeme, line)

\* Scanner::scan_token: the token, and the scanner after it
scan_token(p) ==
  Bind(skip_whitespace(p.pos, p.line), LAMBDA s :
    IF s.pos > Len(src_text)
    THEN [token |-> Token("EOF", "", s.line), pos |-> s.pos, line |-> s.line]
    ELSE [token |-> make_token(src_text[s.pos], s.line),
          pos |-> IF src_text[s.pos] = UnterminatedString
                  THEN Len(src_text) + 1 ELSE s.pos + 1,
          line |-> s.line])

\* -------------------------------------------------- compiler.rs: the parser
OP_TRUE == 2
OP_FALSE == 3
OP_SET_LOCAL == 6
OP_GET_PROPERTY == 12
OP_SET_PROPERTY == 13
OP_GET_SUPER == 14
OP_EQUAL == 15
OP_GREATER == 16
OP_LESS == 17
OP_SUBTRACT == 19
OP_MULTIPLY == 20
OP_DIVIDE == 21
OP_NOT == 22
OP_NEGATE == 23
OP_JUMP == 25
OP_JUMP_IF_FALSE == 26
OP_LOOP == 27
OP_INVOKE == 29
OP_SUPER_INVOKE == 30
OP_CLASS == 33
OP_INHERIT == 34
OP_METHOD == 35

U8_MAX == 255
U16_MAX == 65535

\* enum Precedence, in the order of its declaration
PREC_NONE == 0
PREC_ASSIGNMENT == 1
PREC_OR == 2
PREC_AND == 3
PREC_EQUALITY == 4
PREC_COMPARISON == 5
PREC_TERM == 6
PREC_FACTOR == 7
PREC_UNARY == 8
PREC_CALL == 9
PREC_PRIMARY == 10

\* Precedence::next
PrecedenceNext(prec) == IF prec = PREC_PRIMARY THEN PREC_PRIMARY ELSE prec + 1

ParseRule(prefix, infix, precedence) ==
  [prefix |-> prefix, infix |-> infix, precedence |-> precedence]

get_rule(kind) ==
  CASE kind = "LeftParen" -> ParseRule("grouping", "call", PREC_CALL)
    [] kind = "Bang" -> ParseRule("unary", "", PREC_NONE)
    [] kind = "Minus" -> ParseRule("unary", "binary", PREC_TERM)
    [] kind = "Plus" -> ParseRule("", "binary", PREC_TERM)
    [] kind \in {"Slash", "Star"} -> ParseRule("", "binary", PREC_FACTOR)
    [] kind \in {"BangEqual", "EqualEqual"} ->
         ParseRule("", "binary", PREC_EQUALITY)
    [] kind \in {"Greater", "GreaterEqual", "Less", "LessEqual"} ->
         ParseRule("", "binary", PREC_COMPARISON)
    [] kind = "Number" -> ParseRule("number", "", PREC_NONE)
    [] kind = "And" -> ParseRule("", "and", PREC_AND)
    [] kind = "Or" -> ParseRule("", "or", PREC_OR)
    [] kind = "Super" -> ParseRule("super_", "", PREC_NONE)
    [] kind = "This" -> ParseRule("this", "", PREC_NONE)
    [] kind \in {"True", "False", "Nil"} -> ParseRule("literal", "", PREC_NONE)
    [] kind = "Identifier" -> ParseRule("variable", "", PREC_NONE)
    [] kind = "String" -> ParseRule("string", "", PREC_NONE)
    [] kind = "Dot" -> ParseRule("", "dot", PREC_CALL)
    [] OTHER -> ParseRule("", "", PREC_NONE)

\* error without the had_error flag: the diagnostic is written and panic
\* mode entered, the compile still counts as clean
errorSilent(pp, token, message) ==
  Bind(pp, LAMBDA p :
    IF p.panic_mode THEN p
    ELSE [p EXCEPT
            !.panic_mode = TRUE,
            !.err = Append(@,
              "[line " \o Display(token.line) \o "] Error"
              \o (CASE token.kind = "Error" -> ""
                    [] token.kind = "EOF" -> " at end"
                    [] OTHER -> " at '" \o token.string \o "'")
              \o ": " \o message)])

\* error(token, message, had_error, panic_mode, err)
error(pp, token, message) ==
  Bind(pp, LAMBDA p :
    IF p.panic_mode THEN p
    ELSE [p EXCEPT
            !.panic_mode = TRUE,
            !.had_error = TRUE,
            !.err = Append(@,
              "[line " \o Display(token.line) \o "] Error"
              \o (CASE token.kind = "Error" -> ""
                    [] token.kind = "EOF" -> " at end"
                    [] OTHER -> " at '" \o token.string \o "'")
              \o ": " \o message)])

\* depth: None
NoDepth == -1
Local(name, depth) == [name |-> name, depth |-> depth, is_captured |-> FALSE]

\* Compiler::new; the function's name is the token's text, "" for None
NewCompiler(name, function_type) ==
  [function |-> Fn(name, 0, 0, << >>, << >>),
   function_type |-> function_type,
   locals |-> << Local(IF function_type # "Function" THEN "this" ELSE "", 0) >>,
   upvalues |-> << >>,
   scope_depth |-> 0,
   scope_starts |-> << >>,
   for_parts |-> << >>]

\* Parser::new
NewParser ==
  [pos |-> 1, line |-> 1, statement_starts |-> {}, compiled |-> {},
   previous |-> DefaultToken, current |-> DefaultToken,
   compilers |-> << NewCompiler("", "Script") >>,
   class_compilers |-> << >>,
   functions |-> << >>,
   panic_mode |-> FALSE, had_error |-> FALSE, err |-> << >>,
   result |-> "none"]

\* the compiler of the function being compiled, and its place in the chain
Depth(p) == Len(p.compilers)
Cur(p) == p.compilers[Len(p.compilers)]
CodeLen(p) == Len(Cur(p).function.code)

Max(S) == CHOOSE x \in S : \A y \in S : y <= x

\* Compiler::resolve_local: the slot, -1 for None; uninitialized tells
\* whether the loop passed a local of that name with no depth yet
resolve_local(compiler, name) ==
  LET named == {i \in DOMAIN compiler.locals : compiler.locals[i].name = name}
      ready == {i \in named : compiler.locals[i].depth # NoDepth}
      slot == IF ready = {} THEN 0 ELSE Max(ready)
  IN [index |-> slot - 1,
      uninitialized |-> \E i \in named \ ready : i > slot]

ResolveLocal(pp, k, name) ==
  Bind2(pp, resolve_local(pp.compilers[k], name), LAMBDA p, r :
    [p |-> IF r.uninitialized
           THEN error(p, p.previous,
                      "Can't read local variable in its own initializer.")
           ELSE p,
     index |-> r.index])

\* add_upvalue without the test of upvalue_count
add_upvalueNoLimit(pp, k, index, is_local) ==
  Bind(pp, LAMBDA p :
    LET ups == p.compilers[k].upvalues
        count == p.compilers[k].function.upvalue_count
        same == {i \in 1 .. count :
                   ups[i].index = index /\ ups[i].is_local = is_local}
    IN IF same # {} THEN [p |-> p, index |-> (CHOOSE i \in same :
                                                 \A j \in same : i <= j) - 1]
       ELSE [p |-> [p EXCEPT
                      !.compilers[k].upvalues =
                         Append(@, [index |-> index, is_local |-> is_local]),
                      !.compilers[k].function.upvalue_count = @ + 1],
             index |-> count % (U8_MAX + 1)])

\* Compiler::add_upvalue, on the compiler at place k of the chain
add_upvalue(pp, k, index, is_local) ==
  Bind(pp, LAMBDA p :
    LET ups == p.compilers[k].upvalues
        count == p.compilers[k].function.upvalue_count
        same == {i \in 1 .. count :
                   ups[i].index = index /\ ups[i].is_local = is_local}
    IN IF same # {} THEN [p |-> p, index |-> (CHOOSE i \in same :
                                                 \A j \in same : i <= j) - 1]
       ELSE IF count = U8_MAX + 1
       THEN [p |-> error(p, p.previous,
                         "Too many closure variables in function."),
             index |-> count % (U8_MAX + 1)]
       ELSE [p |-> [p EXCEPT
                      !.compilers[k].upvalues =
                         Append(@, [index |-> index, is_local |-> is_local]),
                      !.compilers[k].function.upvalue_count = @ + 1],
             index |-> count])

\* Compiler::resolve_upvalue, on the compiler at place k of the chain
RECURSIVE resolve_upvalue(_, _, _)
resolve_upvalue(pp, k, name) ==
  IF k = 1 THEN [p |-> pp, index |-> -1]
  ELSE Bind(ResolveLocal(pp, k - 1, name), LAMBDA l :
         IF l.index # -1
         THEN add_upvalue(
                [l.p EXCEPT
                   !.compilers[k - 1].locals[l.index + 1].is_captured = TRUE],
                k, l.index, TRUE)
         ELSE Bind(resolve_upvalue(l.p, k - 1, name), LAMBDA u :
                IF u.index # -1 THEN add_upvalue(u.p, k, u.index, FALSE)
                ELSE [p |-> u.p, index |-> -1]))

\* Parser::check
check(p, kind) == p.current.kind = kind

\* the loop of Parser::advance that reports and skips error tokens
RECURSIVE skip_errors(_)
skip_errors(pp) ==
  Bind2(pp, scan_token(pp), LAMBDA p, s :
    Bind([p EXCEPT !.current = s.token, !.pos = s.pos, !.line = s.line],
         LAMBDA p1 :
      IF s.token.kind # "Error" THEN p1
      ELSE skip_errors(error(p1, s.token, s.token.string))))

\* Parser::advance
advance(pp) == Bind(pp, LAMBDA p : skip_errors([p EXCEPT !.previous = p.current]))

\* Parser::consume
consume(pp, expected, error_message) ==
  Bind(pp, LAMBDA p :
    IF p.current.kind = expected THEN advance(p)
    ELSE error(p, p.current, error_message))

\* emit_byte with a line counted over all the sources given to the VM
emit_byteSessionLine(pp, byte) ==
  Bind(pp, LAMBDA p :
    [p EXCEPT !.compilers[Depth(p)].function.code = Append(@, byte),
              !.compilers[Depth(p)].function.lines =
                 Append(@, p.current.line + Len(lines))])

\* Parser::emit_byte and Chunk::add_byte: the byte, and the line of the
\* current token
emit_byte(pp, byte) ==
  Bind(pp, LAMBDA p :
    [p EXCEPT !.compilers[Depth(p)].function.code = Append(@, byte),
              !.compilers[Depth(p)].function.lines =
                 Append(@, p.current.line)])

emit_byte_pair(pp, byte1, byte2) == emit_byte(emit_byte(pp, byte1), byte2)

\* emit_loop without the test of the offset: the operand is the offset cut
\* to 16 bits
\* history: the jump or Loop with its operand at code index operand is
\* meant to continue at code index target
Target(pp, operand, target) ==
  Bind(pp, LAMBDA p :
    [p EXCEPT !.compilers[Depth(p)].function.targets =
                 @ \cup {[operand |-> operand, target |-> target]}])

emit_loopWrapping(pp, loop_start) ==
  Bind(emit_byte(pp, OP_LOOP), LAMBDA p :
    Bind(CodeLen(p) - loop_start + 2, LAMBDA offset :
      emit_byte(emit_byte(Target(p, CodeLen(p), loop_start),
                          (offset \div (U8_MAX + 1)) % (U8_MAX + 1)),
                offset % (U8_MAX + 1))))

\* Parser::emit_loop
emit_loop(pp, loop_start) ==
  Bind(emit_byte(pp, OP_LOOP), LAMBDA p :
    Bind(CodeLen(p) - loop_start + 2, LAMBDA offset :
      emit_byte(
        emit_byte(
          Target(IF offset > U16_MAX
                 THEN error(p, p.previous, "Loop body too large.") ELSE p,
                 CodeLen(p), loop_start),
          (offset \div (U8_MAX + 1)) % (U8_MAX + 1)),
        offset % (U8_MAX + 1))))

\* Parser::emit_jump: the place of the offset to patch
emit_jump(pp, op) ==
  Bind(emit_byte(emit_byte(emit_byte(pp, op), U8_MAX), U8_MAX), LAMBDA p :
    [p |-> p, jump |-> CodeLen(p) - 2])

\* make_constant without the test of the index: the operand is the index
\* cut to a byte
make_constantWrapping(pp, value) ==
  Bind(pp, LAMBDA p :
    Bind([p EXCEPT !.compilers[Depth(p)].function.consts = Append(@, value)],
         LAMBDA p1 :
      [p |-> p1,
       constant |-> (Len(Cur(p1).function.consts) - 1) % (U8_MAX + 1)]))

\* Parser::make_constant and Chunk::add_constant
make_constant(pp, value) ==
  Bind(pp, LAMBDA p :
    Bind([p EXCEPT !.compilers[Depth(p)].function.consts = Append(@, value)],
         LAMBDA p1 :
      Bind(Len(Cur(p1).function.consts) - 1, LAMBDA constant :
        [p |-> IF constant > U8_MAX
               THEN error(p1, p1.previous, "Too many constants in one chunk.")
               ELSE p1,
         constant |-> constant % (U8_MAX + 1)])))

\* Parser::emit_constant
emit_constant(pp, value) ==
  Bind(make_constant(pp, value), LAMBDA r :
    emit_byte_pair(r.p, OP_CONSTANT, r.constant))

\* patch_jump with the distance measured from the operand's first byte
patch_jumpFromOperand(pp, offset) ==
  Bind(pp, LAMBDA p :
    Bind(CodeLen(p) - offset, LAMBDA jump :
      [Target(IF jump > U16_MAX
              THEN error(p, p.previous, "Too much code to jump over.") ELSE p,
              offset, CodeLen(p))
       EXCEPT !.compilers[Depth(p)].function.code =
         [@ EXCEPT ![offset + 1] = (jump \div (U8_MAX + 1)) % (U8_MAX + 1),
                   ![offset + 2] = jump % (U8_MAX + 1)]]))

\* Parser::patch_jump
patch_jump(pp, offset) ==
  Bind(pp, LAMBDA p :
    Bind(CodeLen(p) - offset - 2, LAMBDA jump :
      [Target(IF jump > U16_MAX
              THEN error(p, p.previous, "Too much code to jump over.") ELSE p,
              offset, CodeLen(p))
       EXCEPT !.compilers[Depth(p)].function.code =
         [@ EXCEPT ![offset + 1] = (jump \div (U8_MAX + 1)) % (U8_MAX + 1),
                   ![offset + 2] = jump % (U8_MAX + 1)]]))

\* Parser::match_token: matched tells whether the token was consumed
match_token(pp, kind) ==
  Bind(pp, LAMBDA p :
    IF check(p, kind) THEN [p |-> advance(p), matched |-> TRUE]
    ELSE [p |-> p, matched |-> FALSE])

\* Parser::identifier_constant
identifier_constant(pp, name) == make_constant(pp, KStr(name))

\* Parser::named_variable up to the choice between get and set
ResolveVariable(pp, name) ==
  Bind(ResolveLocal(pp, Depth(pp), name), LAMBDA l :
    IF l.index # -1
    THEN [p |-> l.p, get_op |-> OP_GET_LOCAL, set_op |-> OP_SET_LOCAL,
          arg |-> l.index]
    ELSE Bind(resolve_upvalue(l.p, Depth(l.p), name), LAMBDA u :
           IF u.index # -1
           THEN [p |-> u.p, get_op |-> OP_GET_UPVALUE,
                 set_op |-> OP_SET_UPVALUE, arg |-> u.index]
           ELSE Bind(identifier_constant(u.p, name), LAMBDA c :
                  [p |-> c.p, get_op |-> OP_GET_GLOBAL,
                   set_op |-> OP_SET_GLOBAL, arg |-> c.constant])))

\* Parser::named_variable(token, false)
named_variable(pp, name) ==
  Bind(ResolveVariable(pp, name), LAMBDA r :
    emit_byte_pair(r.p, r.get_op, r.arg))

\* ---------------------------------------- compiler.rs: the parser's calls
\* One activation of a parser function: its place pc, its locals a, b
\* and c (numbers) and k (a token kind, a function type or a name).
Frame(fn, a, k) ==
  [fn |-> fn, pc |-> 0, a |-> a, b |-> 0, c |-> 0, k |-> k]
TopCall == calls[Len(calls)]
Running_(fn) == calls # << >> /\ TopCall.fn = fn
Flag(b) == IF b THEN 1 ELSE 0

\* the call stack after the running function moves to pc, calls f from pc,
\* or returns (with a value, left in the caller's b)
Goto(pc) == [calls EXCEPT ![Len(calls)].pc = pc]
GotoWith(pc, a, b) ==
  [calls EXCEPT ![Len(calls)].pc = pc, ![Len(calls)].a = a,
                ![Len(calls)].b = b]
Invoke(cs, frame) == Append(cs, frame)
Return == SubSeq(calls, 1, Len(calls) - 1)
ReturnValue(value) ==
  IF Len(calls) = 1 THEN << >>
  ELSE [Return EXCEPT ![Len(calls) - 1].b = value]

R(p, cs) == [p |-> p, calls |-> cs]

\* history: the activation of fn that a loop of the parser starts for one
\* iteration, with the scanner's position and the current token of that
\* moment in c; the parser does not read it
Progress(p) == [pos |-> p.pos, current |-> p.current]
Iteration(fn) == [Frame(fn, 0, "") EXCEPT !.c = Progress(parser)]
Do(r) ==
  \E s \in {r} :
    /\ parser' = s.p
    /\ calls' = s.calls
    /\ UNCHANGED << vm_vars, value_vars, src_text >>

\* Parser::expression
Expression == Frame("parse_precedence", PREC_ASSIGNMENT, "")

Parser_parse_precedence ==
  /\ Running_("parse_precedence")
  /\ Do(IF TopCall.pc = 0
        THEN Bind(advance(parser), LAMBDA p :
               Bind(get_rule(p.previous.kind).prefix, LAMBDA prefix_rule :
                 IF prefix_rule = ""
                 THEN R(error(p, p.previous, "Expect expression."), Goto(1))
                 ELSE R(p, Invoke(Goto(1),
                              Frame(prefix_rule,
                                    Flag(TopCall.a <= PREC_ASSIGNMENT), "")))))
        ELSE IF TopCall.a <= get_rule(parser.current.kind).precedence
        THEN Bind(advance(parser), LAMBDA p :
               R(p, Invoke(Goto(1),
                           Frame(get_rule(p.previous.kind).infix,
                                 Flag(TopCall.a <= PREC_ASSIGNMENT), ""))))
        ELSE IF TopCall.a <= PREC_ASSIGNMENT /\ check(parser, "Equal")
        THEN Bind(advance(parser), LAMBDA p :
               R(error(p, p.previous, "Invalid assignment target."), Return))
        ELSE R(parser, Return))

Parser_number ==
  /\ Running_("number")
  /\ Do(R(emit_constant(parser, KNum(Numerals[parser.previous.string])),
          Return))

Parser_literal ==
  /\ Running_("literal")
  /\ Do(R(emit_byte(parser,
                    CASE parser.previous.kind = "False" -> OP_FALSE
                      [] parser.previous.kind = "True" -> OP_TRUE
                      [] parser.previous.kind = "Nil" -> OP_NIL),
          Return))

Parser_string ==
  /\ Running_("string")
  /\ Do(R(emit_constant(parser,
                        KStr(StringLiterals[parser.previous.string])),
          Return))

Parser_variable ==
  /\ Running_("variable")
  /\ Do(R(parser, Invoke(Return, Frame("named_variable", TopCall.a,
                                       parser.previous.string))))

\* named_variable that takes a following `=` as an assignment whatever
\* can_assign is
Parser_named_variableAlways ==
  /\ Running_("named_variable")
  /\ Do(IF TopCall.pc = 0
        THEN Bind(ResolveVariable(parser, TopCall.k), LAMBDA r :
               IF check(r.p, "Equal")
               THEN R(advance(r.p),
                      Invoke(GotoWith(1, r.set_op, r.arg), Expression))
               ELSE R(emit_byte_pair(r.p, r.get_op, r.arg), Return))
        ELSE R(emit_byte_pair(parser, TopCall.a, TopCall.b), Return))

\* Parser::named_variable: at pc 1 a is the set instruction and b its operand
Parser_named_variable ==
  /\ Running_("named_variable")
  /\ Do(IF TopCall.pc = 0
        THEN Bind(ResolveVariable(parser, TopCall.k), LAMBDA r :
               IF TopCall.a = 1 /\ check(r.p, "Equal")
               THEN R(advance(r.p),
                      Invoke(GotoWith(1, r.set_op, r.arg), Expression))
               ELSE R(emit_byte_pair(r.p, r.get_op, r.arg), Return))
        ELSE R(emit_byte_pair(parser, TopCall.a, TopCall.b), Return))

Parser_this ==
  /\ Running_("this")
  /\ Do(IF parser.class_compilers = << >>
        THEN R(error(parser, parser.previous,
                     "Can't use 'this' outside of a class."), Return)
        ELSE R(parser, Invoke(Return, Frame("variable", 0, ""))))

Parser_grouping ==
  /\ Running_("grouping")
  /\ Do(IF TopCall.pc = 0 THEN R(parser, Invoke(Goto(1), Expression))
        ELSE R(consume(parser, "RightParen", "Expected ')' after expression."),
               Return))

Parser_unary ==
  /\ Running_("unary")
  /\ Do(IF TopCall.pc = 0
        THEN R(parser,
               Invoke([Goto(1) EXCEPT ![Len(calls)].k = parser.previous.kind],
                      Frame("parse_precedence", PREC_UNARY, "")))
        ELSE R(emit_byte(parser, IF TopCall.k = "Minus" THEN OP_NEGATE
                                 ELSE OP_NOT),
               Return))

Parser_binary ==
  /\ Running_("binary")
  /\ Do(IF TopCall.pc = 0
        THEN R(parser,
               Invoke([Goto(1) EXCEPT ![Len(calls)].k = parser.previous.kind],
                      Frame("parse_precedence",
                            PrecedenceNext(
                              get_rule(parser.previous.kind).precedence),
                            "")))
        ELSE R(CASE TopCall.k = "Plus" -> emit_byte(parser, OP_ADD)
                 [] TopCall.k = "Minus" -> emit_byte(parser, OP_SUBTRACT)
                 [] TopCall.k = "Star" -> emit_byte(parser, OP_MULTIPLY)
                 [] TopCall.k = "Slash" -> emit_byte(parser, OP_DIVIDE)
                 [] TopCall.k = "BangEqual" ->
                      emit_byte_pair(parser, OP_EQUAL, OP_NOT)
                 [] TopCall.k = "EqualEqual" -> emit_byte(parser, OP_EQUAL)
                 [] TopCall.k = "Greater" -> emit_byte(parser, OP_GREATER)
                 [] TopCall.k = "GreaterEqual" ->
                      emit_byte_pair(parser, OP_LESS, OP_NOT)
                 [] TopCall.k = "Less" -> emit_byte(parser, OP_LESS)
                 [] TopCall.k = "LessEqual" ->
                      emit_byte_pair(parser, OP_GREATER, OP_NOT),
               Return))

\* Parser::argument_list: a is arg_count; the count is returned
Parser_argument_list ==
  /\ Running_("argument_list")
  /\ Do(IF TopCall.pc = 0 /\ ~check(parser, "RightParen")
        THEN R(parser, Invoke(Goto(1), Expression))
        ELSE IF TopCall.pc = 1 /\ TopCall.a = U8_MAX
        THEN R(error(parser, parser.previous,
                     "Can't have more than 255 arguments."),
               ReturnValue(0))
        ELSE IF TopCall.pc = 1 /\ check(parser, "Comma")
        THEN R(advance(parser), GotoWith(0, TopCall.a + 1, 0))
        ELSE R(consume(parser, "RightParen", "Expect ')' after arguments."),
               ReturnValue(TopCall.a + TopCall.pc)))

Parser_call ==
  /\ Running_("call")
  /\ Do(IF TopCall.pc = 0
        THEN R(parser, Invoke(Goto(1), Frame("argument_list", 0, "")))
        ELSE R(emit_byte_pair(parser, OP_CALL, TopCall.b), Return))

\* Parser::dot: after pc 0 a is the constant of the name
Parser_dot ==
  /\ Running_("dot")
  /\ Do(CASE TopCall.pc = 0 ->
               Bind(consume(parser, "Identifier",
                            "Expect property name after '.'."), LAMBDA p0 :
                 Bind(identifier_constant(p0, p0.previous.string), LAMBDA n :
                   IF TopCall.a = 1 /\ check(n.p, "Equal")
                   THEN R(advance(n.p),
                          Invoke(GotoWith(1, n.constant, 0), Expression))
                   ELSE IF check(n.p, "LeftParen")
                   THEN R(advance(n.p),
                          Invoke(GotoWith(2, n.constant, 0),
                                 Frame("argument_list", 0, "")))
                   ELSE R(emit_byte_pair(n.p, OP_GET_PROPERTY, n.constant),
                          Return)))
          [] TopCall.pc = 1 ->
               R(emit_byte_pair(parser, OP_SET_PROPERTY, TopCall.a), Return)
          [] TopCall.pc = 2 ->
               R(emit_byte(emit_byte_pair(parser, OP_INVOKE, TopCall.a),
                           TopCall.b),
                 Return))

\* Parser::and: a is end_jump
Parser_and ==
  /\ Running_("and")
  /\ Do(IF TopCall.pc = 0
        THEN Bind(emit_jump(parser, OP_JUMP_IF_FALSE), LAMBDA j :
               R(emit_byte(j.p, OP_POP),
                 Invoke(GotoWith(1, j.jump, 0),
                        Frame("parse_precedence", PREC_AND, ""))))
        ELSE R(patch_jump(parser, TopCall.a), Return))

\* Parser::or: a is end_jump
Parser_or ==
  /\ Running_("or")
  /\ Do(IF TopCall.pc = 0
        THEN Bind(emit_jump(parser, OP_JUMP_IF_FALSE), LAMBDA else_jump :
               Bind(emit_jump(else_jump.p, OP_JUMP), LAMBDA end_jump :
                 R(emit_byte(patch_jump(end_jump.p, else_jump.jump), OP_POP),
                   Invoke(GotoWith(1, end_jump.jump, 0),
                          Frame("parse_precedence", PREC_OR, "")))))
        ELSE R(patch_jump(parser, TopCall.a), Return))

\* Parser::super_: a is the constant of the method's name
Parser_super_ ==
  /\ Running_("super_")
  /\ Do(IF TopCall.pc = 0
        THEN Bind(consume(
                    consume(
                      IF parser.class_compilers = << >>
                      THEN error(parser, parser.previous,
                                 "Can't use 'super' outside of a class.")
                      ELSE IF ~parser.class_compilers[
                                 Len(parser.class_compilers)].has_superclass
                      THEN error(parser, parser.previous,
                             "Can't use 'super' in a class with no superclass.")
                      ELSE parser,
                      "Dot", "Expect '.' after 'super'."),
                    "Identifier", "Expect superclass method name."),
                  LAMBDA p0 :
               Bind(identifier_constant(p0, p0.previous.string), LAMBDA n :
                 Bind(named_variable(n.p, "this"), LAMBDA p1 :
                   IF check(p1, "LeftParen")
                   THEN R(advance(p1),
                          Invoke(GotoWith(1, n.constant, 0),
                                 Frame("argument_list", 0, "")))
                   ELSE R(emit_byte_pair(named_variable(p1, "super"),
                                         OP_GET_SUPER, n.constant),
                          Return))))
        ELSE R(emit_byte(emit_byte_pair(named_variable(parser, "super"),
                                        OP_SUPER_INVOKE, TopCall.a),
                         TopCall.b),
               Return))

\* ------------------------------------- compiler.rs: scopes and declarations
\* Parser::begin_scope
\* history: scope_starts holds, for every open scope, the local count at its
\* begin_scope
begin_scope(pp) ==
  Bind(pp, LAMBDA p :
    [p EXCEPT !.compilers[Depth(p)].scope_depth = @ + 1,
              !.compilers[Depth(p)].scope_starts =
                 Append(@, Len(Cur(p).locals))])

\* the loop of Parser::end_scope over the locals lo .. hi, the last first
RECURSIVE emit_pops(_, _, _, _)
emit_pops(pp, locals, lo, hi) ==
  IF lo > hi THEN pp
  ELSE IF lo = hi
  THEN emit_byte(pp, IF locals[lo].is_captured
                     THEN OP_CLOSE_UPVALUE ELSE OP_POP)
  ELSE Bind(emit_pops(pp, locals, ((lo + hi) \div 2) + 1, hi), LAMBDA p :
         emit_pops(p, locals, lo, (lo + hi) \div 2))

\* the loop of Parser::end_scope: it stops at the last local whose depth is
\* not above the scope depth
pop_locals(pp) ==
  Bind(pp, LAMBDA p :
    LET c == Cur(p)
        n == Len(c.locals)
        stop == Max({0} \cup {i \in 1 .. n :
                                c.locals[i].depth <= c.scope_depth})
    IN  [emit_pops(p, c.locals, stop + 1, n)
         EXCEPT !.compilers[Depth(p)].locals = SubSeq(@, 1, stop)])

\* Parser::end_scope
end_scope(pp) ==
  Bind(pp, LAMBDA p :
    pop_locals([p EXCEPT !.compilers[Depth(p)].scope_depth = @ - 1,
                         !.compilers[Depth(p)].scope_starts =
                            SubSeq(@, 1, Len(@) - 1)]))

\* Parser::add_local
add_local(pp, name) ==
  Bind(pp, LAMBDA p :
    IF Len(Cur(p).locals) = U8_MAX + 1
    THEN error(p, p.previous, "Too many local variables in function.")
    ELSE [p EXCEPT !.compilers[Depth(p)].locals =
            Append(@, Local(name, NoDepth))])

\* Parser::declare_variable
declare_variable(pp) ==
  Bind(pp, LAMBDA p :
    LET c == Cur(p)
        name == p.previous.string
        outer == {i \in DOMAIN c.locals :
                    c.locals[i].depth # NoDepth
                    /\ c.locals[i].depth < c.scope_depth}
        stop == IF outer = {} THEN 0 ELSE Max(outer)
    IN IF c.scope_depth = 0 THEN p
       ELSE add_local(
              IF \E i \in DOMAIN c.locals : i > stop /\ c.locals[i].name = name
              THEN error(p, p.previous,
                         "Already a variable with this name in this scope.")
              ELSE p,
              name))

\* Parser::mark_initialized
mark_initialized(pp) ==
  Bind(pp, LAMBDA p :
    IF Cur(p).scope_depth = 0 THEN p
    ELSE [p EXCEPT !.compilers[Depth(p)].locals[Len(Cur(p).locals)].depth =
            Cur(p).scope_depth])

\* Parser::parse_variable
parse_variable(pp, error_message) ==
  Bind(declare_variable(consume(pp, "Identifier", error_message)), LAMBDA p :
    IF Cur(p).scope_depth > 0 THEN [p |-> p, constant |-> 0]
    ELSE identifier_constant(p, p.previous.string))

\* Parser::define_variable
define_variable(pp, global) ==
  Bind(pp, LAMBDA p :
    IF Cur(p).scope_depth > 0 THEN mark_initialized(p)
    ELSE emit_byte_pair(p, OP_DEFINE_GLOBAL, global))

\* Parser::emit_return
emit_return(pp) ==
  Bind(pp, LAMBDA p :
    emit_byte(IF Cur(p).function_type = "Initializer"
              THEN emit_byte_pair(p, OP_GET_LOCAL, 0)
              ELSE emit_byte(p, OP_NIL),
              OP_RETURN))

\* Parser::end: the function is the current compiler's
end_(pp) == emit_return(pp)

\* Parser::synchronize
RECURSIVE skip_to_statement(_)
skip_to_statement(pp) ==
  Bind(pp, LAMBDA p :
    IF is_at_end(p) \/ p.previous.kind = "Semicolon"
       \/ p.current.kind \in {"Class", "Fun", "Var", "For", "If", "While",
                              "Print", "Return"}
    THEN p
    ELSE skip_to_statement(advance(p)))

synchronize(pp) ==
  Bind(pp, LAMBDA p : skip_to_statement([p EXCEPT !.panic_mode = FALSE]))

\* the parameter loop of Parser::function
RECURSIVE parameters(_)
parameters(pp) ==
  Bind(pp, LAMBDA p :
    IF check(p, "RightParen") THEN p
    ELSE Bind([p EXCEPT !.compilers[Depth(p)].function.arity = @ + 1],
              LAMBDA p1 :
           Bind(parse_variable(
                  IF Cur(p1).function.arity > U8_MAX
                  THEN error(p1, p1.current,
                             "Can't have more than 255 parameters.")
                  ELSE p1,
                  "Expect parameter name."), LAMBDA v :
             Bind(define_variable(v.p, v.constant), LAMBDA p2 :
               IF check(p2, "Comma") THEN parameters(advance(p2)) ELSE p2))))

\* ----------------------------------------------- compiler.rs: statements
Parser_print_statement ==
  /\ Running_("print_statement")
  /\ Do(IF TopCall.pc = 0 THEN R(parser, Invoke(Goto(1), Expression))
        ELSE R(emit_byte(consume(parser, "Semicolon",
                                 "Expect ';' after value."), OP_PRINT),
               Return))

Parser_expression_statement ==
  /\ Running_("expression_statement")
  /\ Do(IF TopCall.pc = 0 THEN R(parser, Invoke(Goto(1), Expression))
        ELSE R(emit_byte(consume(parser, "Semicolon",
                                 "Expect ';' after expression."), OP_POP),
               Return))

Parser_return_statement ==
  /\ Running_("return_statement")
  /\ Do(IF TopCall.pc = 0
        THEN Bind(IF Cur(parser).function_type = "Script"
                  THEN error(parser, parser.previous,
                             "Can't return from top-level code.")
                  ELSE parser, LAMBDA p :
               IF check(p, "Semicolon")
               THEN R(emit_return(advance(p)), Return)
               ELSE R(IF Cur(p).function_type = "Initializer"
                      THEN error(p, p.previous,
                                 "Can't return a value from an initializer.")
                      ELSE p,
                      Invoke(Goto(1), Expression)))
        ELSE R(emit_byte(consume(parser, "Semicolon",
                                 "Expect ';' after return value."),
                         OP_RETURN),
               Return))

\* Parser::while_statement: a is loop_start and b exit_jump
Parser_while_statement ==
  /\ Running_("while_statement")
  /\ Do(CASE TopCall.pc = 0 ->
               R(consume(parser, "LeftParen", "Expect '(' after 'while'."),
                 Invoke(GotoWith(1, CodeLen(parser), 0), Expression))
          [] TopCall.pc = 1 ->
               Bind(emit_jump(consume(parser, "RightParen",
                                      "Expect ')' after condition."),
                              OP_JUMP_IF_FALSE), LAMBDA exit_jump :
                 R(emit_byte(exit_jump.p, OP_POP),
                   Invoke(GotoWith(2, TopCall.a, exit_jump.jump),
                          Frame("statement", 0, ""))))
          [] TopCall.pc = 2 ->
               R(emit_byte(patch_jump(emit_loop(parser, TopCall.a),
                                      TopCall.b), OP_POP),
                 Return))

\* Parser::if_statement: a is then_jump and b else_jump
Parser_if_statement ==
  /\ Running_("if_statement")
  /\ Do(CASE TopCall.pc = 0 ->
               R(consume(parser, "LeftParen", "Expect '(' after 'if'."),
                 Invoke(Goto(1), Expression))
          [] TopCall.pc = 1 ->
               Bind(emit_jump(consume(parser, "RightParen",
                                      "Expect ')' after condition."),
                              OP_JUMP_IF_FALSE), LAMBDA then_jump :
                 R(emit_byte(then_jump.p, OP_POP),
                   Invoke(GotoWith(2, then_jump.jump, 0),
                          Frame("statement", 0, ""))))
          [] TopCall.pc = 2 ->
               Bind(emit_jump(parser, OP_JUMP), LAMBDA else_jump :
                 Bind(emit_byte(patch_jump(else_jump.p, TopCall.a), OP_POP),
                      LAMBDA p :
                   IF check(p, "Else")
                   THEN R(advance(p),
                          Invoke(GotoWith(3, TopCall.a, else_jump.jump),
                                 Frame("statement", 0, "")))
                   ELSE R(patch_jump(p, else_jump.jump), Return)))
          [] TopCall.pc = 3 ->
               R(patch_jump(parser, TopCall.b), Return))

\* history: the code indices of the parts of the for statements being
\* compiled, innermost last: init and cond where the initializer and the
\* condition start, exit_jump the operand of the condition's JumpIfFalse,
\* incr and body where the increment and the body start, -1 where there is
\* none
ForBegin(pp) ==
  Bind(pp, LAMBDA p :
    [p EXCEPT !.compilers[Depth(p)].for_parts =
       Append(@, [init |-> CodeLen(p), cond |-> -1, exit_jump |-> -1,
                  incr |-> -1, body |-> -1, exit |-> -1])])
ForPart(pp, part, index) ==
  Bind(pp, LAMBDA p :
    [p EXCEPT !.compilers[Depth(p)].for_parts[Len(Cur(p).for_parts)][part] =
       index])
\* history: the for statement is compiled, the code after it starts at exit
ForEnd(pp) ==
  Bind(pp, LAMBDA p :
    [p EXCEPT
       !.compilers[Depth(p)].function.loops =
          @ \cup {[Cur(p).for_parts[Len(Cur(p).for_parts)]
                     EXCEPT !.exit = CodeLen(p)]},
       !.compilers[Depth(p)].for_parts = SubSeq(@, 1, Len(@) - 1)])

\* loop_start = increment_start: the body loops back to the increment
body_loop_startKeepsCondition(loop_start, increment_start) == loop_start

body_loop_start(loop_start, increment_start) == increment_start

\* Parser::for_statement: a is loop_start, b exit_jump (-1 for None) and c
\* body_jump
Parser_for_statement ==
  /\ Running_("for_statement")
  /\ Do(CASE TopCall.pc = 0 ->
               Bind(ForBegin(consume(begin_scope(parser), "LeftParen",
                                     "Expect '(' after 'for'.")), LAMBDA p :
                 IF check(p, "Semicolon") THEN R(advance(p), Goto(1))
                 ELSE IF check(p, "Var")
                 THEN R(advance(p),
                        Invoke(Goto(1), Frame("var_declaration", 0, "")))
                 ELSE R(p, Invoke(Goto(1),
                                  Frame("expression_statement", 0, ""))))
          [] TopCall.pc = 1 ->
               Bind(ForPart(parser, "cond", CodeLen(parser)), LAMBDA p :
                 IF ~check(p, "Semicolon")
                 THEN R(p, Invoke(GotoWith(2, CodeLen(p), 0), Expression))
                 ELSE R(advance(p), GotoWith(3, CodeLen(p), -1)))
          [] TopCall.pc = 2 ->
               Bind(emit_jump(consume(parser, "Semicolon",
                                      "Expect ';' after loop condition."),
                              OP_JUMP_IF_FALSE), LAMBDA jump :
                 R(ForPart(emit_byte(jump.p, OP_POP), "exit_jump", jump.jump),
                   GotoWith(3, TopCall.a, jump.jump)))
          [] TopCall.pc = 3 ->
               IF ~check(parser, "RightParen")
               THEN Bind(emit_jump(parser, OP_JUMP), LAMBDA body_jump :
                      R(ForPart(body_jump.p, "incr", CodeLen(body_jump.p)),
                        Invoke([Goto(4) EXCEPT ![Len(calls)].c =
                                  body_jump.jump],
                               Expression)))
               ELSE R(ForPart(advance(parser), "body", CodeLen(parser)),
                      Invoke(Goto(5), Frame("statement", 0, "")))
          [] TopCall.pc = 4 ->
               Bind(patch_jump(
                      emit_loop(
                        consume(emit_byte(parser, OP_POP), "RightParen",
                                "Expect ')' after for clauses."),
                        TopCall.a),
                      TopCall.c), LAMBDA p :
                 R(ForPart(p, "body", CodeLen(p)),
                   Invoke(GotoWith(5, body_loop_start(TopCall.a, TopCall.c + 2),
                                   TopCall.b),
                          Frame("statement", 0, ""))))
          [] TopCall.pc = 5 ->
               Bind(ForEnd(emit_loop(parser, TopCall.a)), LAMBDA p :
                 R(end_scope(IF TopCall.b # -1
                             THEN emit_byte(patch_jump(p, TopCall.b), OP_POP)
                             ELSE p),
                   Return)))

Parser_block ==
  /\ Running_("block")
  /\ Do(IF ~is_at_end(parser) /\ ~check(parser, "RightBrace")
        THEN R(parser, Invoke(calls, Iteration("declaration")))
        ELSE R(consume(parser, "RightBrace", "Expect '}' after block."),
               Return))

Parser_statement ==
  /\ Running_("statement")
  /\ Do(IF TopCall.pc = 1 THEN R(end_scope(parser), Return)
        ELSE CASE check(parser, "Print") ->
                    R(advance(parser),
                      Invoke(Return, Frame("print_statement", 0, "")))
               [] check(parser, "If") ->
                    R(advance(parser),
                      Invoke(Return, Frame("if_statement", 0, "")))
               [] check(parser, "Return") ->
                    R(advance(parser),
                      Invoke(Return, Frame("return_statement", 0, "")))
               [] check(parser, "While") ->
                    R(advance(parser),
                      Invoke(Return, Frame("while_statement", 0, "")))
               [] check(parser, "For") ->
                    R(advance(parser),
                      Invoke(Return, Frame("for_statement", 0, "")))
               [] check(parser, "LeftBrace") ->
                    R(begin_scope(advance(parser)),
                      Invoke(Goto(1), Frame("block", 0, "")))
               [] OTHER ->
                    R(parser,
                      Invoke(Return, Frame("expression_statement", 0, ""))))

\* Parser::var_declaration: a is global
Parser_var_declaration ==
  /\ Running_("var_declaration")
  /\ Do(IF TopCall.pc = 0
        THEN Bind(parse_variable(parser, "Expect variable name."), LAMBDA v :
               IF check(v.p, "Equal")
               THEN R(advance(v.p),
                      Invoke(GotoWith(1, v.constant, 0), Expression))
               ELSE R(define_variable(
                        consume(emit_byte(v.p, OP_NIL), "Semicolon",
                                "Expect ';' after variable declaration."),
                        v.constant),
                      Return))
        ELSE R(define_variable(
                 consume(parser, "Semicolon",
                         "Expect ';' after variable declaration."),
                 TopCall.a),
               Return))

\* the functions one compilation may finish
MaxFunctions == 3

\* the (is_local, index) pairs emitted after a Closure instruction
\* emit_upvalues with no operand pair at all
emit_upvaluesNone(pp, upvalues, upvalue_count, i) == pp

\* the loop of Parser::function over the upvalues from i on: emit_byte of
\* is_local and emit_byte of index for each, all on the current token's line
emit_upvalues(pp, upvalues, upvalue_count, i) ==
  Bind(pp, LAMBDA p :
    LET pairs == [j \in 1 .. 2 * (upvalue_count - i + 1) |->
                    IF j % 2 = 1
                    THEN Flag(upvalues[i + (j - 1) \div 2].is_local)
                    ELSE upvalues[i + (j - 1) \div 2].index]
    IN  [p EXCEPT
           !.compilers[Depth(p)].function.code = @ \o pairs,
           !.compilers[Depth(p)].function.lines =
              @ \o [j \in DOMAIN pairs |-> p.current.line]])

\* Parser::function: k is function_type.  The finished function joins
\* functions and the constant names its place there.
Parser_function ==
  /\ Running_("function")
  /\ TopCall.pc = 0 => Len(parser.functions) < MaxFunctions
  /\ Do(IF TopCall.pc = 0
        THEN R(consume(
                 consume(
                   parameters(
                     consume(
                       begin_scope(
                         [parser EXCEPT !.compilers =
                            Append(@, NewCompiler(parser.previous.string,
                                                  TopCall.k))]),
                       "LeftParen", "Expect '(' after function name.")),
                   "RightParen", "Expect ')' after parameters."),
                 "LeftBrace", "Expect '{' before function body."),
               Invoke(Goto(1), Frame("block", 0, "")))
        ELSE Bind(end_(parser), LAMBDA p :
               Bind(make_constant(
                      [p EXCEPT
                         !.compilers = SubSeq(@, 1, Len(@) - 1),
                         !.functions = Append(@, Cur(p).function)],
                      KFn(Len(p.functions) + 1)), LAMBDA f :
                 R(emit_upvalues(emit_byte_pair(f.p, OP_CLOSURE, f.constant),
                                 Cur(p).upvalues,
                                 Cur(p).function.upvalue_count, 1),
                   Return))))

\* Parser::method: a is constant
Parser_method ==
  /\ Running_("method")
  /\ Do(IF TopCall.pc = 0
        THEN Bind(consume(parser, "Identifier", "Expect method name."),
                  LAMBDA p :
               Bind(identifier_constant(p, p.previous.string), LAMBDA n :
                 R(n.p,
                   Invoke(GotoWith(1, n.constant, 0),
                          Frame("function", 0,
                                IF p.previous.string = "init"
                                THEN "Initializer" ELSE "Method")))))
        ELSE R(emit_byte_pair(parser, OP_METHOD, TopCall.a), Return))

\* Parser::fun_declaration: a is global
Parser_fun_declaration ==
  /\ Running_("fun_declaration")
  /\ Do(IF TopCall.pc = 0
        THEN Bind(parse_variable(parser, "Expect function name."), LAMBDA v :
               R(mark_initialized(v.p),
                 Invoke(GotoWith(1, v.constant, 0),
                        Frame("function", 0, "Function"))))
        ELSE R(define_variable(parser, TopCall.a), Return))

\* Parser::class_declaration up to the class body
ClassHeader(pp) ==
  Bind(consume(pp, "Identifier", "Expect class name."), LAMBDA p0 :
    Bind2(p0.previous.string, identifier_constant(p0, p0.previous.string),
          LAMBDA class_name, n :
      Bind([define_variable(
              emit_byte_pair(declare_variable(n.p), OP_CLASS, n.constant),
              n.constant)
            EXCEPT !.class_compilers =
              Append(@, [has_superclass |-> FALSE])], LAMBDA p1 :
        consume(
          named_variable(
            IF ~check(p1, "Less") THEN p1
            ELSE Bind(Bind(consume(advance(p1), "Identifier",
                                   "Expect superclass name."), LAMBDA ps :
                        named_variable(ps, ps.previous.string)),
                      LAMBDA p2 :
                   [emit_byte(
                      named_variable(
                        define_variable(
                          add_local(
                            begin_scope(
                              IF class_name = p2.previous.string
                              THEN error(p2, p2.previous,
                                         "A class can't inherit from itself.")
                              ELSE p2),
                            "super"),
                          0),
                        class_name),
                      OP_INHERIT)
                   EXCEPT !.class_compilers[Len(p2.class_compilers)]
                            .has_superclass = TRUE]),
            class_name),
          "LeftBrace", "Expect '{' before class body."))))

Parser_class_declaration ==
  /\ Running_("class_declaration")
  /\ Do(IF TopCall.pc = 0 THEN R(ClassHeader(parser), Goto(1))
        ELSE IF ~check(parser, "RightBrace") /\ ~check(parser, "EOF")
        THEN R(parser, Invoke(calls, Iteration("method")))
        ELSE Bind(emit_byte(consume(parser, "RightBrace",
                                    "Expect '}' after class body."), OP_POP),
                  LAMBDA p :
               R([(IF p.class_compilers[Len(p.class_compilers)].has_superclass
                   THEN end_scope(p) ELSE p)
                  EXCEPT !.class_compilers = SubSeq(@, 1, Len(@) - 1)],
                 Return)))

Parser_declaration ==
  /\ Running_("declaration")
  /\ Do(IF TopCall.pc = 1
        THEN R(IF parser.panic_mode THEN synchronize(parser) ELSE parser,
               Return)
        ELSE CASE check(parser, "Class") ->
                    R(advance(parser),
                      Invoke(Goto(1), Frame("class_declaration", 0, "")))
               [] check(parser, "Var") ->
                    R(advance(parser),
                      Invoke(Goto(1), Frame("var_declaration", 0, "")))
               [] check(parser, "Fun") ->
                    R(advance(parser),
                      Invoke(Goto(1), Frame("fun_declaration", 0, "")))
               [] OTHER ->
                    R(parser, Invoke(Goto(1), Frame("statement", 0, ""))))

\* history: statement_starts collects the offsets in the script's code at
\* which compile begins a top-level declaration, and the offset after the
\* last one; the parser does not read it
StatementStart(p) == [p EXCEPT !.statement_starts = @ \cup {CodeLen(p)}]

\* ------------------------------------------------- compiler.rs: compile
\* the functions compile returned, the script first and every function
\* before the ones its constants name
CompiledProgram(p) ==
  LET n == Len(p.functions)
      Place(f) ==
        [f EXCEPT !.consts =
           [j \in DOMAIN @ |->
              IF @[j].k = "fn" THEN KFn(n - @[j].n + 2) ELSE @[j]]]
  IN [i \in 1 .. n + 1 |->
        IF i = 1 THEN Place(Cur(p).function)
        ELSE Place(p.functions[n - i + 2])]

\* history: a source and the functions compile returned for it
Compiled(source, p) == [source |-> source, program |-> CompiledProgram(p)]

\* compile: Parser::new, advance, declarations up to the end of the source,
\* end.  statement_starts and compiled are history.
Parser_compile ==
  /\ Running_("compile")
  /\ Do(IF TopCall.pc = 0 THEN R(advance(parser), Goto(1))
        ELSE IF ~is_at_end(parser)
        THEN R(StatementStart(parser),
               Invoke(calls, Iteration("declaration")))
        ELSE Bind(end_(StatementStart(parser)), LAMBDA p :
               R([p EXCEPT !.result = IF p.had_error THEN "Compile" ELSE "Ok",
                           !.compiled = IF p.had_error THEN @
                                        ELSE @ \cup {Compiled(src_text, p)}],
                 Return)))

ParserNext ==
  \/ Parser_compile
  \/ Parser_declaration
  \/ Parser_class_declaration
  \/ Parser_method
  \/ Parser_fun_declaration
  \/ Parser_function
  \/ Parser_var_declaration
  \/ Parser_statement
  \/ Parser_block
  \/ Parser_print_statement
  \/ Parser_expression_statement
  \/ Parser_return_statement
  \/ Parser_if_statement
  \/ Parser_while_statement
  \/ Parser_for_statement
  \/ Parser_parse_precedence
  \/ Parser_number
  \/ Parser_literal
  \/ Parser_string
  \/ Parser_variable
  \/ Parser_named_variable
  \/ Parser_this
  \/ Parser_super_
  \/ Parser_grouping
  \/ Parser_unary
  \/ Parser_binary
  \/ Parser_argument_list
  \/ Parser_call
  \/ Parser_dot
  \/ Parser_and
  \/ Parser_or

\* ------------------------------------- vm.rs: the instructions of sources
\* Value::is_falsey
is_falsey(val) == val.k = "nil" \/ (val.k = "bool" /\ val.n = 0)

\* read_u16 of the instruction being executed
ReadU16(v) == Operand(v, 1) * (U8_MAX + 1) + Operand(v, 2)

ExecTrue(vm) == Bind(vm, LAMBDA v : push(Advance(v, 1), BoolV(TRUE)))
ExecFalse(vm) == Bind(vm, LAMBDA v : push(Advance(v, 1), BoolV(FALSE)))

ExecNot(vm) ==
  Bind(vm, LAMBDA v :
    Bind(pop(Advance(v, 1)), LAMBDA v1 :
      IF ~Running(v1) THEN v1 ELSE push(v1, BoolV(is_falsey(Top(v))))))

\* binary_op!(self, Bool, <)
ExecLess(vm) ==
  Bind(vm, LAMBDA v :
    IF ~IsNumber(peek(v, 0)) \/ ~IsNumber(peek(v, 1))
    THEN runtime_error(Advance(v, 1), "Operands must be numbers.")
    ELSE push(pop(pop(Advance(v, 1))), BoolV(peek(v, 1).n < peek(v, 0).n)))

\* binary_op!(self, Bool, >)
ExecGreater(vm) ==
  Bind(vm, LAMBDA v :
    IF ~IsNumber(peek(v, 0)) \/ ~IsNumber(peek(v, 1))
    THEN runtime_error(Advance(v, 1), "Operands must be numbers.")
    ELSE push(pop(pop(Advance(v, 1))), BoolV(peek(v, 1).n > peek(v, 0).n)))

ExecSetLocal(vm) ==
  Bind(vm, LAMBDA v :
    [Advance(v, 2) EXCEPT
       !.stack[Operand(v, 1) + current_frame(v).stack_offset] = peek(v, 0)])

ExecJump(vm) == Bind(vm, LAMBDA v : Advance(v, 3 + ReadU16(v)))

ExecJumpIfFalse(vm) ==
  Bind(vm, LAMBDA v :
    IF is_falsey(peek(v, 0)) THEN Advance(v, 3 + ReadU16(v))
    ELSE Advance(v, 3))

ExecLoop(vm) ==
  Bind(vm, LAMBDA v :
    [v EXCEPT !.frames[Len(v.frames)].ip = @ + 3 - ReadU16(v)])

\* OpCode::Class: Object::new_class, pushed
ExecClass(vm) ==
  Bind2(vm, Constant(vm, Operand(vm, 1)), LAMBDA v, name :
    Bind(allocate(Advance(v, 2), ClassCell(name.n), "none"), LAMBDA v1 :
      push(v1, ObjV(NewId(v1)))))

\* OpCode::Inherit
ExecInherit(vm) ==
  Bind(vm, LAMBDA v :
    LET superclass == peek(v, 1)
        subclass == peek(v, 0)
    IN IF IsObj(superclass) /\ IsObj(subclass)
       THEN IF v.cells[superclass.n].t # "Class"
            THEN runtime_error(Advance(v, 1), "Superclass must be a class.")
            ELSE pop([Advance(v, 1) EXCEPT !.cells[subclass.n].methods =
                        [k \in DOMAIN @ \cup DOMAIN v.cells[superclass.n].methods
                           |-> IF k \in DOMAIN v.cells[superclass.n].methods
                               THEN v.cells[superclass.n].methods[k]
                               ELSE @[k]]])
       ELSE runtime_error(
              Advance(v, 1),
              "Provided value was not a class! this is a compiler error."))

\* OpCode::Method and define_method
ExecMethod(vm) ==
  Bind2(vm, Constant(vm, Operand(vm, 1)), LAMBDA v, name :
    IF IsObj(peek(v, 1))
    THEN pop([Advance(v, 2) EXCEPT !.cells[peek(v, 1).n].methods =
                [k \in DOMAIN @ \cup {name.n} |->
                   IF k = name.n THEN peek(v, 0) ELSE @[k]]])
    ELSE runtime_error(
           Advance(v, 2),
           "Provided global name was not a string! this is a compiler error."))

\* OpCode::SetProperty: the operand is read only in the instance's branch
ExecSetProperty(vm) ==
  Bind(vm, LAMBDA v :
    LET instance == peek(v, 1)
    IN IF IsObj(instance)
       THEN IF v.cells[instance.n].t # "Instance"
            THEN runtime_error(Advance(v, 1), "Only instances have properties.")
            ELSE push(pop(pop(
                   [Advance(v, 2) EXCEPT !.cells[instance.n].fields =
                      [k \in DOMAIN @ \cup {Constant(v, Operand(v, 1)).n} |->
                         IF k = Constant(v, Operand(v, 1)).n
                         THEN peek(v, 0) ELSE @[k]]])),
                   peek(v, 0))
       ELSE Advance(v, 1))

OpTrue == CurOp = OP_TRUE /\ Step(ExecTrue(VM))
OpFalse == CurOp = OP_FALSE /\ Step(ExecFalse(VM))
OpNot == CurOp = OP_NOT /\ Step(ExecNot(VM))
OpLess == CurOp = OP_LESS /\ Step(ExecLess(VM))
OpGreater == CurOp = OP_GREATER /\ Step(ExecGreater(VM))
OpSetLocal == CurOp = OP_SET_LOCAL /\ Step(ExecSetLocal(VM))
OpJump == CurOp = OP_JUMP /\ Step(ExecJump(VM))
OpJumpIfFalse == CurOp = OP_JUMP_IF_FALSE /\ Step(ExecJumpIfFalse(VM))
OpLoop == CurOp = OP_LOOP /\ Step(ExecLoop(VM))
OpClass == CurOp = OP_CLASS /\ Step(ExecClass(VM))
OpInherit == CurOp = OP_INHERIT /\ Step(ExecInherit(VM))
OpMethod == CurOp = OP_METHOD /\ Step(ExecMethod(VM))
OpSetProperty == CurOp = OP_SET_PROPERTY /\ Step(ExecSetProperty(VM))
\* a collection is not due in a fresh VM that runs a short source
OpAddFresh == CurOp = OP_ADD /\ Step(ExecAdd(VM, "none"))
OpClosureFresh ==
  /\ CurOp = OP_CLOSURE
  /\ Step(ExecClosure(
            VM, [i \in 1 .. 1 + FnOf(VM, Constant(VM, Operand(VM, 1)).n)
                                  .upvalue_count |-> "none"]))

\* --------------------------------------------------------------- sources
\* test/assignment.rs global: var a = 1; a = 2; print a;
Src_assignment_global ==
  << "var", " ", "a", " ", "=", " ", "1", ";", " ", "a", " ", "=", " ",
     "2", ";", " ", "print", " ", "a", ";" >>
\* test/assignment.rs undefined: unknown = "s";
Src_assignment_undefined ==
  << "unknown", " ", "=", " ", "\"s\"", ";" >>
\* test/field.rs set_on_bool: true.foo = "s";
Src_set_on_bool ==
  << "true", ".", "foo", " ", "=", " ", "\"s\"", ";" >>
\* test/field.rs set_on_nil: nil.foo = "s";
Src_set_on_nil ==
  << "nil", ".", "foo", " ", "=", " ", "\"s\"", ";" >>
\* test/field.rs set_on_num: 1.foo = "s";
Src_set_on_num ==
  << "1", ".", "foo", " ", "=", " ", "\"s\"", ";" >>
\* test/field.rs set_on_string: "s".foo = "t";
Src_set_on_string ==
  << "\"s\"", ".", "foo", " ", "=", " ", "\"t\"", ";" >>
\* test/field.rs set_on_class: class Foo {} Foo.bar = "s";
Src_set_on_class ==
  << "class", " ", "Foo", " ", "{", "}", " ", "Foo", ".", "bar", " ", "=",
     " ", "\"s\"", ";" >>
\* test/field.rs set_on_function: fun foo() {} foo.bar = "s";
Src_set_on_function ==
  << "fun", " ", "foo", "(", ")", " ", "{", "}", " ", "foo", ".", "bar",
     " ", "=", " ", "\"s\"", ";" >>
\* test/field.rs on_instance: class Foo {} var foo = Foo(); foo.bar = "s";
Src_set_on_instance ==
  << "class", " ", "Foo", " ", "{", "}", " ", "var", " ", "foo", " ", "=",
     " ", "Foo", "(", ")", ";", " ", "foo", ".", "bar", " ", "=", " ",
     "\"s\"", ";" >>
\* test/inheritance.rs inherit_from_nil: var Nil = nil; class Foo < Nil {}
Src_inherit_from_nil ==
  << "var", " ", "Nil", " ", "=", " ", "nil", ";", " ", "class", " ",
     "Foo", " ", "<", " ", "Nil", " ", "{", "}" >>
\* test/inheritance.rs inherit_from_number: var Number = 1; class Foo < Number {}
Src_inherit_from_number ==
  << "var", " ", "Number", " ", "=", " ", "1", ";", " ", "class", " ",
     "Foo", " ", "<", " ", "Number", " ", "{", "}" >>
\* test/inheritance.rs inherit_from_function: fun foo() {} class Subclass < foo {}
Src_inherit_from_function ==
  << "fun", " ", "foo", "(", ")", " ", "{", "}", " ", "class", " ",
     "Subclass", " ", "<", " ", "foo", " ", "{", "}" >>
\* test/inheritance.rs inherit_methods: class Foo { m() {} } class Bar < Foo {}
Src_inherit_methods ==
  << "class", " ", "Foo", " ", "{", " ", "m", "(", ")", " ", "{", "}",
     " ", "}", " ", "class", " ", "Bar", " ", "<", " ", "Foo", " ", "{",
     "}" >>
\* test/if_.rs else_: if (false) print 1; else print 2; if (1 > 2) print 3; if (true) print 0;
Src_if_else ==
  << "if", " ", "(", "false", ")", " ", "print", " ", "1", ";", " ",
     "else", " ", "print", " ", "2", ";", " ", "if", " ", "(", "1", " ",
     ">", " ", "2", ")", " ", "print", " ", "3", ";", " ", "if", " ", "(", "true", ")",
     " ", "print", " ", "0", ";" >>
\* test/while_.rs syntax: var c = 0; while (c < 2) { print c; c = c + 1; }
Src_while_syntax ==
  << "var", " ", "c", " ", "=", " ", "0", ";", " ", "while", " ", "(",
     "c", " ", "<", " ", "2", ")", " ", "{", " ", "print", " ", "c", ";",
     " ", "c", " ", "=", " ", "c", " ", "+", " ", "1", ";", " ", "}" >>
\* test/for_.rs syntax: for (var i = 0; i < 2; i = i + 1) print i; for (;!true;) {}
Src_for_syntax ==
  << "for", " ", "(", "var", " ", "i", " ", "=", " ", "0", ";", " ", "i",
     " ", "<", " ", "2", ";", " ", "i", " ", "=", " ", "i", " ", "+", " ",
     "1", ")", " ", "print", " ", "i", ";", " ", "for", " ", "(", ";",
     "!", "true", ";", ")", " ", "{", "}" >>
\* test/logical_operator.rs and / or: print nil or 1; print 1 and false; print true and 2 or 3;
Src_logical_operator ==
  << "print", " ", "nil", " ", "or", " ", "1", ";", " ", "print", " ",
     "1", " ", "and", " ", "false", ";", " ", "print", " ", "true", " ",
     "and", " ", "2", " ", "or", " ", "3", ";" >>
\* test/variable.rs scope_reuse_in_different_blocks: { var a = "s"; { var b = a; a = b + "t"; print a; } }
Src_block_scope ==
  << "{", " ", "var", " ", "a", " ", "=", " ", "\"s\"", ";", " ", "{",
     " ", "var", " ", "b", " ", "=", " ", "a", ";", " ", "a", " ", "=",
     " ", "b", " ", "+", " ", "\"t\"", ";", " ", "print", " ", "a", ";",
     " ", "}", " ", "}" >>
\* test/closure.rs close_over_later_variable: fun f() { var a = "s"; fun g() { print a; } g(); } f();
Src_close_over_later_variable ==
  << "fun", " ", "f", "(", ")", " ", "{", " ", "var", " ", "a", " ", "=",
     " ", "\"s\"", ";", " ", "fun", " ", "g", "(", ")", " ", "{", " ",
     "print", " ", "a", ";", " ", "}", " ", "g", "(", ")", ";", " ", "}",
     " ", "f", "(", ")", ";" >>
\* test/number.rs leading_dot: an error after a statement: var a = 1; print a; + 2;
Src_leading_dot ==
  << "var", " ", "a", " ", "=", " ", "1", ";", " ", "print", " ", "a",
     ";", " ", "+", " ", "2", ";" >>
\* test/super_.rs super_at_top_level: super.foo("s"); super.bar;
Src_super_at_top_level ==
  << "super", ".", "foo", "(", "\"s\"", ")", ";", " ", "super", ".",
     "bar", ";" >>
\* test/assignment.rs to_this: class Foo { Foo() { this = "s"; } } Foo();
Src_to_this ==
  << "class", " ", "Foo", " ", "{", " ", "Foo", "(", ")", " ", "{", " ",
     "this", " ", "=", " ", "\"s\"", ";", " ", "}", " ", "}", " ", "Foo",
     "(", ")", ";" >>
\* test/constructor.rs return_value and test/return_.rs at_top_level: class B < A { init(a) { return (-a); } m() { return super.m().x + this.m(1, !a); } } return;
Src_return_in_init ==
  << "class", " ", "B", " ", "<", " ", "A", " ", "{", " ", "init", "(",
     "a", ")", " ", "{", " ", "return", " ", "(", "-", "a", ")", ";", " ",
     "}", " ", "m", "(", ")", " ", "{", " ", "return", " ", "super", ".",
     "m", "(", ")", ".", "x", " ", "+", " ", "this", ".", "m", "(", "1",
     ",", " ", "!", "a", ")", ";", " ", "}", " ", "}", " ", "return", ";"
     >>

\* test/assignment.rs grouping: var a = "s"; / (a) = "t";
Src_grouping ==
  << "var", " ", "a", " ", "=", " ", "\"s\"", ";", "\n", "(", "a", ")",
     " ", "=", " ", "\"t\"", ";" >>
\* test/assignment.rs infix_operator: var a = "s"; / var b = "t"; / a + b = "s";
Src_infix_operator ==
  << "var", " ", "a", " ", "=", " ", "\"s\"", ";", "\n", "var", " ", "b",
     " ", "=", " ", "\"t\"", ";", "\n", "a", " ", "+", " ", "b", " ", "=",
     " ", "\"s\"", ";" >>
\* test/assignment.rs prefix_operator: var a = "s"; / !a = "t";
Src_prefix_operator ==
  << "var", " ", "a", " ", "=", " ", "\"s\"", ";", "\n", "!", "a", " ",
     "=", " ", "\"t\"", ";" >>
\* test/this.rs this_at_top_level: this = 1;
Src_this_at_top_level ==
  << "this", " ", "=", " ", "1", ";" >>
\* test/string.rs unterminated: print "u
Src_unterminated ==
  << "print", " ", "\"u" >>
\* test/mod.rs unexpected_character: foo(a | b);
Src_unexpected_character ==
  << "foo", "(", "a", " ", "@", " ", "b", ")", ";" >>
\* test/variable.rs use_local_in_initializer and duplicate_local: { var a = a; var a; }
Src_use_local_in_initializer ==
  << "{", " ", "var", " ", "a", " ", "=", " ", "a", ";", " ", "var", " ",
     "a", ";", " ", "}" >>
\* test/field.rs get_and_set_method: a.b = c.d(1).e;
Src_property_assignment ==
  << "a", ".", "b", " ", "=", " ", "c", ".", "d", "(", "1", ")", ".", "e",
     ";" >>
\* a print statement that runs to the end of the source: print 1
Src_missing_semicolon ==
  << "print", " ", "1" >>
\* an expression statement that ends the source: print 1; a
Src_trailing_expression ==
  << "print", " ", "1", ";", " ", "a" >>

RunSources ==
  {Src_assignment_global,
   Src_assignment_undefined,
   Src_set_on_bool,
   Src_set_on_nil,
   Src_set_on_num,
   Src_set_on_string,
   Src_set_on_class,
   Src_set_on_function,
   Src_set_on_instance,
   Src_inherit_from_nil,
   Src_inherit_from_number,
   Src_inherit_from_function,
   Src_inherit_methods,
   Src_if_else,
   Src_while_syntax,
   Src_for_syntax,
   Src_logical_operator,
   Src_block_scope,
   Src_close_over_later_variable,
   Src_leading_dot,
   Src_super_at_top_level,
   Src_to_this,
   Src_return_in_init}

\* an error token met while synchronize skips to the next statement:
\* a a @; +;
Src_error_in_synchronize ==
  << "a", " ", "a", " ", "@", ";", " ", "+", ";" >>

\* a class body that ends with the source, no blank after its last token:
\* class A { 1
Src_unclosed_class ==
  << "class", " ", "A", " ", "{", " ", "1" >>

ErrorSources ==
  {Src_unclosed_class,
   Src_error_in_synchronize,
   Src_grouping,
   Src_infix_operator,
   Src_prefix_operator,
   Src_this_at_top_level,
   Src_unterminated,
   Src_unexpected_character,
   Src_use_local_in_initializer,
   Src_property_assignment,
   Src_missing_semicolon,
   Src_trailing_expression}

\* the lexemes of the short sources and the longest short source
Alphabet == {"a", "=", "+", ";", "1", "(", "print", " ", "@"}
MaxTokens == 3

RECURSIVE SourcesOfLength(_)
SourcesOfLength(n) ==
  IF n = 0 THEN {<< >>}
  ELSE {Append(s, t) : s \in SourcesOfLength(n - 1), t \in Alphabet}

ShortSources == UNION {SourcesOfLength(n) : n \in 0 .. MaxTokens}

CompileSources == ShortSources \cup ErrorSources \cup RunSources

\* ------------------------------------------------- compile on its own
\* compile(source, err) entered
Compile ==
  /\ calls = << >>
  /\ parser.result = "none"
  /\ src_text = << >>
  /\ \E s \in CompileSources : src_text' = s
  /\ parser' = [NewParser EXCEPT !.compiled = parser.compiled]
  /\ calls' = << Frame("compile", 0, "") >>
  /\ UNCHANGED << vm_vars, value_vars >>

NextCompile == Compile \/ ParserNext

SpecCompile == Init /\ [][NextCompile]_vars

\* ------------------------------------------- interpret on a source text
\* VM::interpret(source) entered: compile(source.as_str(), ..) starts
InterpretSource ==
  /\ status \notin {"running", "panic"}
  /\ calls = << >>
  /\ parser.result = "none"
  /\ Len(lines) < MaxLines
  /\ \E s \in RunSources : src_text' = s
  /\ parser' = [NewParser EXCEPT !.compiled = parser.compiled]
  /\ calls' = << Frame("compile", 0, "") >>
  /\ UNCHANGED << vm_vars, value_vars >>

\* VM::interpret after compile returned: `?` hands Err(Compile) on, else the
\* function is pushed, wrapped in a closure and called.  A line that did
\* not compile is entered in lines as 0.
InterpretCompiled ==
  /\ calls = << >>
  /\ parser.result # "none"
  /\ parser' = [parser EXCEPT !.result = "none"]
  /\ UNCHANGED << value_vars, src_text, calls >>
  /\ \E v \in {IF parser.result = "Compile"
               THEN [VM EXCEPT !.status = "compile_error",
                               !.lines = Append(@, 0)]
               ELSE interpret(
                      [VM EXCEPT !.chunks = Append(@, CompiledProgram(parser))],
                      Len(Programs) + Len(chunks) + 1, "none", "none")} :
       CommitVM(v)

NextSource ==
  \/ InterpretSource
  \/ ParserNext
  \/ InterpretCompiled
  \/ OpConstant
  \/ OpNil
  \/ OpTrue
  \/ OpFalse
  \/ OpPop
  \/ OpGetLocal
  \/ OpSetLocal
  \/ OpGetGlobal
  \/ OpDefineGlobal
  \/ OpSetGlobal
  \/ OpGetUpvalue
  \/ OpSetProperty
  \/ OpLess
  \/ OpGreater
  \/ OpAddFresh
  \/ OpNot
  \/ OpPrint
  \/ OpJump
  \/ OpJumpIfFalse
  \/ OpLoop
  \/ OpCall
  \/ OpClosureFresh
  \/ OpClass
  \/ OpInherit
  \/ OpMethod
  \/ OpReturn

SpecSource == Init /\ [][NextSource]_vars

\* ---------------------------------------------------------------------
\* claims about sources
\* ---------------------------------------------------------------------

\* C12: from the first diagnostic of a compile to the return of interpret
\* nothing is executed: no step prints, pushes a call frame, or changes
\* the globals or the value stack, and interpret returns CompileError.
CompileErrorRunsNothing ==
  [][(parser.err # << >> /\ (calls # << >> \/ parser.result # "none"))
       => /\ UNCHANGED << out, frames, globals, stack, stack_index >>
          /\ (calls = << >> => status' = "compile_error")]_vars

\* a second line failed to compile on a VM whose first line defined a
\* global and printed
CompileErrorReturned ==
  /\ status = "compile_error"
  /\ parser.err # << >>
  /\ calls = << >>
  /\ parser.result = "none"
  /\ out # << >>
  /\ DOMAIN globals # {}

\* C13: once a declaration has synchronized, reporting is on again, so an
\* error in a later statement is written: panic mode is off whenever
\* declaration returns.
ReportingResumesAfterSynchronize ==
  [][(Running_("declaration") /\ TopCall.pc = 1) => ~parser'.panic_mode]_vars

\* C13, the part the parser keeps: in panic mode no diagnostic is written
\* before declaration synchronizes, a step writes at most one, and
\* had_error is never cleared during a compile
ErrorsSuppressedInPanicMode ==
  [][calls # << >> =>
       /\ (parser.panic_mode /\ ~(Running_("declaration") /\ TopCall.pc = 1)
             => parser'.err = parser.err)
       /\ Len(parser'.err) <= Len(parser.err) + 1
       /\ (parser.had_error => parser'.had_error)]_vars

\* C14: compile parses up to EOF: when it returns, the token it stopped
\* on is the EOF token, so no token of the source is left unparsed.
CompileReachesEOF ==
  parser.result # "none" => parser.current.kind = "EOF"

\* the sources of test/assignment.rs whose `=` follows an expression that
\* is no target
NoTargetSources ==
  {Src_grouping, Src_infix_operator, Src_prefix_operator, Src_to_this}

InvalidTargetMessages ==
  {"[line " \o Display(n) \o "] Error at '=': Invalid assignment target." :
     n \in 1 .. 3}

\* the `=` of a no-target source is reported, as the first diagnostic
InvalidTargetReported ==
  (parser.result # "none" /\ src_text \in NoTargetSources)
    => /\ parser.result = "Compile"
       /\ parser.err # << >>
       /\ parser.err[1] \in InvalidTargetMessages

\* a step that emits a Set instruction is the end of a named_variable or a
\* dot that parse_precedence called with precedence at most Assignment
SetEmittedForTarget ==
  LET old == Cur(parser).function.code
      new == Cur(parser').function.code
  IN  (/\ calls # << >>
       /\ Depth(parser') = Depth(parser)
       /\ Len(new) = Len(old) + 2
       /\ new[Len(new) - 1] \in {OP_SET_LOCAL, OP_SET_GLOBAL, OP_SET_UPVALUE,
                                 OP_SET_PROPERTY})
        => /\ TopCall.fn \in {"named_variable", "dot"}
           /\ TopCall.pc = 1
           /\ calls[Len(calls) - 1].fn = "parse_precedence"
           /\ calls[Len(calls) - 1].a <= PREC_ASSIGNMENT

\* C15: an `=` after an expression that is not an assignable target parsed
\* at assignment precedence is reported as "Invalid assignment target.",
\* and a Set instruction is emitted only for a variable or property parsed
\* with precedence at most Assignment.
InvalidAssignmentTarget ==
  []InvalidTargetReported /\ [][SetEmittedForTarget]_vars

\* a + b = "s" was rejected
InfixTargetRejected ==
  /\ src_text = Src_infix_operator
  /\ parser.result = "Compile"
  /\ parser.err
       = << "[line 3] Error at '=': Invalid assignment target." >>

\* the VM is between two top-level statements of the source it is
\* running: its frame is that of the script compiled last and ip is an
\* offset where a top-level declaration starts or the last one ends
BetweenStatements ==
  /\ status = "running"
  /\ calls = << >>
  /\ frames # << >>
  /\ LET fn == cells[cells[current_frame(VM).closure].function]
     IN  fn.prog = Len(Programs) + Len(chunks) /\ fn.fnid = 1
  /\ Ip(VM) \in parser.statement_starts

\* C16: between the top-level statements of a source the value stack holds
\* what it held before the first one, the script's closure in the frame's
\* slot 0 and nothing above it, on every path through if/else, loops,
\* `and` and `or`.
StackBalanced ==
  BetweenStatements => stack_index = current_frame(VM).stack_offset + 1

\* C16, for the sources that do not set a property on a number: all of
\* them are balanced
StackBalancedOtherwise ==
  src_text # Src_set_on_num => StackBalanced

\* every closure has as many upvalue places as its function counts
ClosuresSized ==
  \A c \in DOMAIN cells :
    cells[c].t = "Closure"
      => Len(cells[c].upvalues) = FnOf(VM, cells[c].function).upvalue_count

\* a Closure instruction that succeeds moves ip over its constant operand
\* and one operand pair per upvalue of the function
ClosureConsumesPairs ==
  (CurOp = OP_CLOSURE /\ status' = "running")
    => /\ Len(frames') = Len(frames)
       /\ frames'[Len(frames')].ip
            = Ip(VM) + 2
              + 2 * FnOf(VM, Constant(VM, Operand(VM, 1)).n).upvalue_count

\* Parser::function ends by emitting Closure, the constant and one operand
\* pair per upvalue of the function it finished
FunctionEmitsPairs ==
  (Running_("function") /\ TopCall.pc = 1)
    => Len(Cur(parser').function.code)
         = Len(parser.compilers[Depth(parser) - 1].function.code) + 2
           + 2 * parser'.functions[Len(parser'.functions)].upvalue_count

\* C17: every closure made by the Closure instruction has an upvalue array
\* as long as its function's upvalue_count, and the instruction consumes
\* exactly the upvalue_count operand pairs the compiler emitted after it.
ClosureUpvalues ==
  /\ []ClosuresSized
  /\ [][ClosureConsumesPairs]_vars
  /\ [][FunctionEmitsPairs]_vars

\* the closure g of test/closure.rs has captured the local a of f
ClosureCaptured ==
  /\ src_text = Src_close_over_later_variable
  /\ status = "running"
  /\ \E c \in DOMAIN cells :
       /\ cells[c].t = "Closure"
       /\ Len(cells[c].upvalues) = 1
       /\ cells[c].upvalues[1] # Null

\* C18: SetProperty on a receiver that is not an instance fails with the
\* runtime error "Only instances have fields." and stores nothing.
SetPropertyOnNonInstance ==
  [][(/\ CurOp = OP_SET_PROPERTY
      /\ ~(IsObj(peek(VM, 1)) /\ cells[peek(VM, 1).n].t = "Instance"))
     =>
     (/\ status' = "error"
      /\ Len(err') = Len(err) + 1
      /\ err'[Len(err')].msg = "Only instances have fields."
      /\ cells' = cells)]_vars

\* C18, what the handler does instead: an object that is no instance gets
\* "Only instances have properties.", any other receiver no error at all
SetPropertyAsCoded ==
  [][(/\ CurOp = OP_SET_PROPERTY
      /\ ~(IsObj(peek(VM, 1)) /\ cells[peek(VM, 1).n].t = "Instance"))
     =>
     (/\ cells' = cells
      /\ IF IsObj(peek(VM, 1))
         THEN /\ status' = "error"
              /\ err'[Len(err')].msg = "Only instances have properties."
         ELSE /\ status' = "running"
              /\ err' = err
              /\ stack_index' = stack_index
              /\ frames' = Advance(VM, 1).frames)]_vars

\* C19: Inherit with a superclass operand that is not a class fails with
\* the runtime error "Superclass must be a class." and copies no method
\* into the subclass.
InheritFromNonClass ==
  [][(/\ CurOp = OP_INHERIT
      /\ ~(IsObj(peek(VM, 1)) /\ cells[peek(VM, 1).n].t = "Class"))
     =>
     (/\ status' = "error"
      /\ Len(err') = Len(err) + 1
      /\ err'[Len(err')].msg = "Superclass must be a class."
      /\ cells' = cells)]_vars

\* C19, what the handler does: the claimed message for an object that is
\* no class, another one for nil and numbers; no method is copied
InheritAsCoded ==
  [][(/\ CurOp = OP_INHERIT
      /\ ~(IsObj(peek(VM, 1)) /\ cells[peek(VM, 1).n].t = "Class"))
     =>
     (/\ status' = "error"
      /\ cells' = cells
      /\ err'[Len(err')].msg
           = IF IsObj(peek(VM, 1))
             THEN "Superclass must be a class."
             ELSE "Provided value was not a class! this is a compiler error.")]_vars

\* C20: SetGlobal on a name that is not in globals raises the runtime
\* error "Undefined variable" and leaves globals as they are; on a name
\* that is there it overwrites the value and leaves the assigned value on
\* the stack.
SetGlobalEffect ==
  [][CurOp = OP_SET_GLOBAL =>
       LET name == Constant(VM, Operand(VM, 1))
       IN  IF name.n \in DOMAIN globals
           THEN /\ globals' = [globals EXCEPT ![name.n] = peek(VM, 0)]
                /\ stack_index' = stack_index
                /\ stack' = stack
                /\ status' = "running"
                /\ err' = err
           ELSE /\ globals' = globals
                /\ status' = "error"
                /\ Len(err') = Len(err) + 1
                /\ err'[Len(err')].msg
                     = "Undefined variable '" \o cells[name.n].s \o "'"]_vars

\* a = 2 has overwritten the global a of the first line, and unknown = "s"
\* on the second line has failed without creating unknown
AssignedThenUndefined ==
  /\ src_text = Src_assignment_undefined
  /\ out = << "2" >>
  /\ status = "error"
  /\ err[Len(err)].msg = "Undefined variable 'unknown'"
  /\ \A k \in DOMAIN globals : cells[k].s # "unknown"

\* ---------------------------------------------------------------------
\* vm.rs: properties, methods and super
\* ---------------------------------------------------------------------

\* VM::bind_method: the receiver on top of the stack is replaced by a bound
\* method of the class's method of that name
bind_method(vm, class, name) ==
  Bind(vm, LAMBDA v :
    IF name \in DOMAIN v.cells[class].methods
    THEN IF IsObj(v.cells[class].methods[name])
         THEN Bind(allocate(v, BoundMethodCell(
                                 peek(v, 0),
                                 v.cells[class].methods[name].n), "none"),
                   LAMBDA v1 : push(pop(v1), ObjV(NewId(v1))))
         ELSE runtime_error(
                v, "Provided value was not a method! this is a compiler error.")
    ELSE runtime_error(v, "Undefined property " \o v.cells[name].s))

\* the lookup of OpCode::GetProperty, name already read: a field first,
\* then a method
get_property(vm, name) ==
  Bind(vm, LAMBDA v :
    LET instance == v.cells[peek(v, 0).n]
    IN IF name \in DOMAIN instance.fields
       THEN push(pop(v), instance.fields[name])
       ELSE bind_method(v, instance.class, name))

\* OpCode::GetProperty
ExecGetProperty(vm) ==
  Bind(vm, LAMBDA v :
    IF IsObj(peek(v, 0)) /\ v.cells[peek(v, 0).n].t = "Instance"
    THEN get_property(Advance(v, 2), Constant(v, Operand(v, 1)).n)
    ELSE runtime_error(Advance(v, 1), "Only instances have properties."))

\* VM::invoke_from_class
invoke_from_class(vm, class, name, arg_count) ==
  Bind(vm, LAMBDA v :
    IF name \notin DOMAIN v.cells[class].methods
    THEN runtime_error(v, "Undefined property '" \o v.cells[name].s \o "'.")
    ELSE IF IsObj(v.cells[class].methods[name])
    THEN call(v, v.cells[class].methods[name].n, arg_count)
    ELSE runtime_error(
           v, "Provided value was not a method! this is a compiler error."))

\* invoke that looks the name up among the methods only
invokeMethodsOnly(vm, name, arg_count) ==
  Bind(vm, LAMBDA v :
    LET receiver == peek(v, arg_count)
    IN IF IsObj(receiver) /\ v.cells[receiver.n].t = "Instance"
       THEN invoke_from_class(v, v.cells[receiver.n].class, name, arg_count)
       ELSE runtime_error(v, "Only instances have methods."))

\* VM::invoke
invoke(vm, name, arg_count) ==
  Bind(vm, LAMBDA v :
    LET receiver == peek(v, arg_count)
    IN IF IsObj(receiver) /\ v.cells[receiver.n].t = "Instance"
       THEN IF name \in DOMAIN v.cells[receiver.n].fields
            THEN Bind(v.cells[receiver.n].fields[name], LAMBDA value :
                   call_value(
                     [v EXCEPT !.stack[v.stack_index - arg_count - 1] = value],
                     value, arg_count))
            ELSE invoke_from_class(v, v.cells[receiver.n].class, name,
                                   arg_count)
       ELSE runtime_error(v, "Only instances have methods."))

\* OpCode::Invoke
ExecInvoke(vm) ==
  Bind(vm, LAMBDA v :
    invoke(Advance(v, 3), Constant(v, Operand(v, 1)).n, Operand(v, 2)))

\* OpCode::SuperInvoke: the superclass is popped and never type-checked
ExecSuperInvoke(vm) ==
  Bind(vm, LAMBDA v :
    IF IsObj(Top(v))
    THEN invoke_from_class(pop(Advance(v, 3)), Top(v).n,
                           Constant(v, Operand(v, 1)).n, Operand(v, 2))
    ELSE runtime_error(
           pop(Advance(v, 2)),
           "Provided super was not a class! this is a compiler error."))

\* OpCode::GetSuper: todo!() for a superclass that is no object
ExecGetSuper(vm) ==
  Bind(vm, LAMBDA v :
    IF IsObj(Top(v))
    THEN bind_method(pop(Advance(v, 2)), Top(v).n,
                     Constant(v, Operand(v, 1)).n)
    ELSE [pop(Advance(v, 2)) EXCEPT !.status = "panic"])

OpGetProperty == CurOp = OP_GET_PROPERTY /\ Step(ExecGetProperty(VM))
OpInvoke == CurOp = OP_INVOKE /\ Step(ExecInvoke(VM))
OpSuperInvoke == CurOp = OP_SUPER_INVOKE /\ Step(ExecSuperInvoke(VM))
OpGetSuper == CurOp = OP_GET_SUPER /\ Step(ExecGetSuper(VM))

\* ------------------------------------------- sources with classes
\* test/method.rs arity and test/field.rs method: a method invoked, and got and then called: class Foo { m(a) { print a; } } var foo = Foo(); foo.m(1); var g = foo.m; g(2);
Src_invoke_method ==
  << "class", " ", "Foo", " ", "{", " ", "m", "(", "a", ")", " ", "{",
     " ", "print", " ", "a", ";", " ", "}", " ", "}", " ", "var", " ",
     "foo", " ", "=", " ", "Foo", "(", ")", ";", " ", "foo", ".", "m",
     "(", "1", ")", ";", " ", "var", " ", "g", " ", "=", " ", "foo", ".",
     "m", ";", " ", "g", "(", "2", ")", ";" >>
\* test/field.rs call_function_field: class Foo {} fun bar(a) { print a; } var foo = Foo(); foo.bar = bar; foo.bar(1);
Src_call_function_field ==
  << "class", " ", "Foo", " ", "{", "}", " ", "fun", " ", "bar", "(", "a",
     ")", " ", "{", " ", "print", " ", "a", ";", " ", "}", " ", "var",
     " ", "foo", " ", "=", " ", "Foo", "(", ")", ";", " ", "foo", ".",
     "bar", " ", "=", " ", "bar", ";", " ", "foo", ".", "bar", "(", "1",
     ")", ";" >>
\* fields that hold a bound method and a class: class Foo { m(a) { print a; } } var foo = Foo(); var o = Foo(); o.b = foo.m; o.b(1); o.c = Foo; print o.c();
Src_invoke_bound_field ==
  << "class", " ", "Foo", " ", "{", " ", "m", "(", "a", ")", " ", "{",
     " ", "print", " ", "a", ";", " ", "}", " ", "}", " ", "var", " ",
     "foo", " ", "=", " ", "Foo", "(", ")", ";", " ", "var", " ", "o",
     " ", "=", " ", "Foo", "(", ")", ";", " ", "o", ".", "b", " ", "=",
     " ", "foo", ".", "m", ";", " ", "o", ".", "b", "(", "1", ")", ";",
     " ", "o", ".", "c", " ", "=", " ", "Foo", ";", " ", "print", " ",
     "o", ".", "c", "(", ")", ";" >>
\* test/field.rs undefined: no field and no method of the name: class Foo {} Foo().x();
Src_invoke_undefined ==
  << "class", " ", "Foo", " ", "{", "}", " ", "Foo", "(", ")", ".", "x",
     "(", ")", ";" >>
\* test/field.rs call_nonfunction_field: class Foo {} var foo = Foo(); foo.n = 1; foo.n();
Src_invoke_non_callable ==
  << "class", " ", "Foo", " ", "{", "}", " ", "var", " ", "foo", " ", "=",
     " ", "Foo", "(", ")", ";", " ", "foo", ".", "n", " ", "=", " ", "1",
     ";", " ", "foo", ".", "n", "(", ")", ";" >>
\* test/method.rs missing_arguments: class Foo { m(a) {} } Foo().m();
Src_invoke_arity ==
  << "class", " ", "Foo", " ", "{", " ", "m", "(", "a", ")", " ", "{",
     "}", " ", "}", " ", "Foo", "(", ")", ".", "m", "(", ")", ";" >>
\* test/call.rs string: "s".m();
Src_invoke_on_string ==
  << "\"s\"", ".", "m", "(", ")", ";" >>
\* test/field.rs undefined: class Foo {} print Foo().x;
Src_get_undefined ==
  << "class", " ", "Foo", " ", "{", "}", " ", "print", " ", "Foo", "(",
     ")", ".", "x", ";" >>
\* test/super_.rs indirectly_inherited: class A { foo() { print 1; } } class B < A {} class C < B { foo() { print 3; super.foo(); } } C().foo();
Src_indirectly_inherited ==
  << "class", " ", "A", " ", "{", " ", "foo", "(", ")", " ", "{", " ",
     "print", " ", "1", ";", " ", "}", " ", "}", " ", "class", " ", "B",
     " ", "<", " ", "A", " ", "{", "}", " ", "class", " ", "C", " ", "<",
     " ", "B", " ", "{", " ", "foo", "(", ")", " ", "{", " ", "print",
     " ", "3", ";", " ", "super", ".", "foo", "(", ")", ";", " ", "}",
     " ", "}", " ", "C", "(", ")", ".", "foo", "(", ")", ";" >>
\* test/super_.rs reassign_superclass: class Base { m() { print 1; } } class Derived < Base { m() { super.m(); } } class Other { m() { print 2; } } var d = Derived(); d.m(); Base = Other; d.m();
Src_reassign_superclass ==
  << "class", " ", "Base", " ", "{", " ", "m", "(", ")", " ", "{", " ",
     "print", " ", "1", ";", " ", "}", " ", "}", " ", "class", " ",
     "Derived", " ", "<", " ", "Base", " ", "{", " ", "m", "(", ")", " ",
     "{", " ", "super", ".", "m", "(", ")", ";", " ", "}", " ", "}", " ",
     "class", " ", "Other", " ", "{", " ", "m", "(", ")", " ", "{", " ",
     "print", " ", "2", ";", " ", "}", " ", "}", " ", "var", " ", "d",
     " ", "=", " ", "Derived", "(", ")", ";", " ", "d", ".", "m", "(",
     ")", ";", " ", "Base", " ", "=", " ", "Other", ";", " ", "d", ".",
     "m", "(", ")", ";" >>
\* test/super_.rs call_other_method and bound_method, run on an instance of
\* a further subclass that overrides m:
\* class A { m() { print 1; } } class B < A { t() { super.m(); 
\* var f = super.m; f(); } } class C < B { m() { print 3; } } C().t();
Src_super_in_subclass ==
  << "class", " ", "A", " ", "{", " ", "m", "(", ")", " ", "{", " ",
     "print", " ", "1", ";", " ", "}", " ", "}", " ", "class", " ", "B",
     " ", "<", " ", "A", " ", "{", " ", "t", "(", ")", " ", "{", " ",
     "super", ".", "m", "(", ")", ";", " ", "var", " ", "f", " ", "=",
     " ", "super", ".", "m", ";", " ", "f", "(", ")", ";", " ", "}", " ",
     "}", " ", "class", " ", "C", " ", "<", " ", "B", " ", "{", " ", "m",
     "(", ")", " ", "{", " ", "print", " ", "3", ";", " ", "}", " ", "}",
     " ", "C", "(", ")", ".", "t", "(", ")", ";" >>

\* test/constructor.rs arguments and test/method.rs: an initializer with an
\* argument and a method with loops, conditions and returns:
\*   class K { init(a) { this.a = a; }
\*     m() { var i = 0; while (i < 1) i = i + 1; for (;false;) {}
\*       if (!(this.a > 3) or true and false) return this.a; return nil; } }
\*   print K(1).m(); print true;
Src_init_and_method ==
  << "class", " ", "K", " ", "{", " ", "init", "(", "a", ")", " ", "{",
     " ", "this", ".", "a", " ", "=", " ", "a", ";", " ", "}", " ", "m",
     "(", ")", " ", "{", " ", "var", " ", "i", " ", "=", " ", "0", ";",
     " ", "while", " ", "(", "i", " ", "<", " ", "1", ")", " ", "i", " ",
     "=", " ", "i", " ", "+", " ", "1", ";", " ", "for", " ", "(", ";",
     "false", ";", ")", " ", "{", "}", " ", "if", " ", "(", "!", "(",
     "this", ".", "a", " ", ">", " ", "3", ")", " ", "or", " ", "true",
     " ", "and", " ", "false", ")", " ", "return", " ", "this", ".", "a",
     ";", " ", "return", " ", "nil", ";", " ", "}", " ", "}", " ",
     "print", " ", "K", "(", "1", ")", ".", "m", "(", ")", ";", " ",
     "print", " ", "true", ";" >>

\* test/field.rs set_on_num followed by test/super_.rs call_other_method:
\*   1.foo = "s"; class A { m() { print 1; } } class B < A { t() { super.m(); } } B().t();
Src_super_after_set_on_num ==
  << "1", ".", "foo", " ", "=", " ", "\"s\"", ";", " ", "class", " ", "A",
     " ", "{", " ", "m", "(", ")", " ", "{", " ", "print", " ", "1", ";",
     " ", "}", " ", "}", " ", "class", " ", "B", " ", "<", " ", "A", " ",
     "{", " ", "t", "(", ")", " ", "{", " ", "super", ".", "m", "(", ")",
     ";", " ", "}", " ", "}", " ", "B", "(", ")", ".", "t", "(", ")", ";" >>

\* an addition that fails in a function, written over several lines:
\*   fun f() {
\*     return 1 + (nil)
\*     ;
\*   }
\*   f();
Src_add_nil_in_function ==
  << "fun", " ", "f", "(", ")", " ", "{", "\n", " ", "return", " ", "1",
     " ", "+", " ", "(", "nil", ")", "\n", " ", ";", "\n", "}", "\n", "f",
     "(", ")", ";" >>

MethodSources ==
  {Src_init_and_method,
   Src_invoke_method,
   Src_call_function_field,
   Src_invoke_bound_field,
   Src_invoke_undefined,
   Src_invoke_non_callable,
   Src_invoke_arity,
   Src_invoke_on_string,
   Src_get_undefined,
   Src_indirectly_inherited,
   Src_reassign_superclass,
   Src_super_in_subclass,
   Src_super_after_set_on_num,
   Src_add_nil_in_function}

\* VM::interpret called with one of the sources above
InterpretMethodSource ==
  /\ status \notin {"running", "panic"}
  /\ calls = << >>
  /\ parser.result = "none"
  /\ Len(lines) < MaxLines
  /\ \E s \in MethodSources : src_text' = s
  /\ parser' = [NewParser EXCEPT !.compiled = parser.compiled]
  /\ calls' = << Frame("compile", 0, "") >>
  /\ UNCHANGED << vm_vars, value_vars >>

NextMethods ==
  \/ InterpretMethodSource
  \/ ParserNext
  \/ InterpretCompiled
  \/ OpConstant
  \/ OpNil
  \/ OpTrue
  \/ OpFalse
  \/ OpPop
  \/ OpGetLocal
  \/ OpSetLocal
  \/ OpLess
  \/ OpGreater
  \/ OpAddFresh
  \/ OpNot
  \/ OpJump
  \/ OpJumpIfFalse
  \/ OpLoop
  \/ OpGetGlobal
  \/ OpDefineGlobal
  \/ OpSetGlobal
  \/ OpGetUpvalue
  \/ OpGetProperty
  \/ OpSetProperty
  \/ OpGetSuper
  \/ OpPrint
  \/ OpCall
  \/ OpInvoke
  \/ OpSuperInvoke
  \/ OpClosureFresh
  \/ OpCloseUpvalue
  \/ OpClass
  \/ OpInherit
  \/ OpMethod
  \/ OpReturn

SpecMethods == Init /\ [][NextMethods]_vars

\* ---------------------------------------------------------------------
\* claims about methods
\* ---------------------------------------------------------------------

\* GetProperty name, the arguments, Call arg_count, from the state in which
\* the receiver and the arguments are on the stack: the property is got
\* with the receiver on top, then the value left in its slot is called
GetPropertyThenCall(vm, name, arg_count) ==
  Bind(vm, LAMBDA v :
    IF ~(IsObj(peek(v, arg_count))
         /\ v.cells[peek(v, arg_count).n].t = "Instance")
    THEN runtime_error(v, "Only instances have properties.")
    ELSE Bind(get_property([v EXCEPT !.stack_index = @ - arg_count], name),
              LAMBDA got :
           IF ~Running(got) THEN got
           ELSE Bind([got EXCEPT !.stack_index = @ + arg_count], LAMBDA v1 :
                  call_value(v1, peek(v1, arg_count), arg_count))))

\* C21: wherever GetProperty name; Call argc succeeds, Invoke name argc
\* reaches the same frames and the same stack, for a method and for a field
\* that holds a callable, and Invoke fails wherever the pair fails.
InvokeIsGetPropertyThenCall ==
  [][CurOp = OP_INVOKE =>
       LET two == GetPropertyThenCall(Advance(VM, 3),
                                      Constant(VM, Operand(VM, 1)).n,
                                      Operand(VM, 2))
       IN  IF Running(two)
           THEN /\ status' = "running"
                /\ frames' = two.frames
                /\ stack_index' = two.stack_index
                /\ \A i \in 0 .. two.stack_index - 1 :
                     stack'[i] = two.stack[i]
           ELSE status' # "running"]_vars

\* a closure held by a field has been invoked: its frame is the second one
FieldInvoked ==
  /\ src_text = Src_call_function_field
  /\ status = "running"
  /\ Len(frames) = 2
  /\ ClosureFn(VM, frames[2].closure).name = "bar"

\* the name written after `<` in the class declaration that holds the
\* first `super` of the source
DeclaredSuperclass(src) ==
  LET first == CHOOSE i \in DOMAIN src :
                 src[i] = "super" /\ \A k \in 1 .. i - 1 : src[k] # "super"
      less == CHOOSE j \in 1 .. first :
                src[j] = "<" /\ \A k \in j + 1 .. first : src[k] # "<"
  IN  src[less + 2]

\* the sources that use super, and what their super calls print when m is
\* looked up in the superclass of the declaration
SuperSources ==
  {Src_indirectly_inherited, Src_reassign_superclass, Src_super_in_subclass,
   Src_super_after_set_on_num,
   Src_add_nil_in_function}

SuperOutput(src) ==
  CASE src = Src_indirectly_inherited -> << "3", "1" >>
    [] src = Src_reassign_superclass -> << "1", "1" >>
    [] src = Src_super_in_subclass -> << "1", "1" >>
    [] src = Src_super_after_set_on_num -> << "1" >>

\* the first source of a session has been compiled and run to its end
FirstSourceDone ==
  /\ calls = << >>
  /\ parser.result = "none"
  /\ Len(lines) = 1
  /\ status \notin {"running", "idle"}

\* C22: a super call or access finds on the stack the class named after
\* `<` in the declaration of the class whose method contains it, whatever
\* the receiver's class is and whatever the superclass's variable holds by
\* then, and the program prints what the methods of that class print.
SuperResolvesAtDeclaration ==
  src_text \in SuperSources =>
    /\ (status = "running" /\ CurOp \in {OP_SUPER_INVOKE, OP_GET_SUPER})
         => /\ IsObj(Top(VM))
            /\ cells[Top(VM).n].t = "Class"
            /\ cells[cells[Top(VM).n].name].s = DeclaredSuperclass(src_text)
    /\ FirstSourceDone => status = "ok" /\ out = SuperOutput(src_text)

\* C22, for the sources whose class declarations start on a balanced stack:
\* super resolves as declared
SuperResolvesOnBalancedStack ==
  src_text # Src_super_after_set_on_num => SuperResolvesAtDeclaration

\* ---------------------------------------------------------------------
\* allocate.rs: the accounting of bytes_allocated and next_gc
\* ---------------------------------------------------------------------
\* size_of::<ObjString>(): the header and a Box<str>
SizeOfObjString == 24
\* size_of::<ObjUpvalue>(): the header, location, closed and next
SizeOfObjUpvalue == 40

ObjectKinds == {"String", "Upvalue"}
size_of(kind) == IF kind = "String" THEN SizeOfObjString ELSE SizeOfObjUpvalue

\* calls of allocate in one behaviour
MaxObjects == 3
\* objects given up by the program between two allocations
MaxUnreached == 2

\* the allocator's part of the VM as one value
AL == [bytes_allocated |-> bytes_allocated, next_gc |-> next_gc, heap |-> heap]

\* a > b on usize: a negative residue stands for itself plus 2^64, which is
\* above every value that is not negative
UsizeGreater(a, b) == IF (a < 0) = (b < 0) THEN a > b ELSE a < 0

\* remove_white_strings: the unmarked strings leave the interner, and
\* size_of::<ObjString>() is subtracted for each
remove_white_strings(al) ==
  [al EXCEPT !.bytes_allocated = @ - SizeOfObjString * al.heap.white_strings,
             !.heap.removed = @ + al.heap.white_strings]

\* Object::free_object: the object's size, which sweep subtracts
free_object(kind) == size_of(kind)

\* sweep: every unmarked object of the heap list is unlinked and freed
sweep(al) ==
  [al EXCEPT
     !.bytes_allocated =
        @ - (free_object("String") * al.heap.white_strings
             + al.heap.white_bytes),
     !.heap.white_strings = 0,
     !.heap.white_bytes = 0]

\* collect_garbage: mark, trace, remove_white_strings, sweep; next_gc is not
\* assigned
Allocator_collect_garbage(al) ==
  Bind(sweep(remove_white_strings(al)), LAMBDA a :
    [a EXCEPT !.heap.collections = @ + 1,
              !.heap.after_collection = a.bytes_allocated])

\* allocate::<T>: the release build collects when bytes_allocated is above
\* next_gc, the debug build never collects; then size_of::<T>() is added
Allocator_allocate(al, kind, build) ==
  Bind(IF build = "release" /\ UsizeGreater(al.bytes_allocated, al.next_gc)
       THEN Allocator_collect_garbage(al) ELSE al,
       LAMBDA a :
         [a EXCEPT !.bytes_allocated = @ + size_of(kind),
                   !.heap.reachable = @ + size_of(kind),
                   !.heap.allocated = @ + 1])

\* the total size of the cells on the heap list
HeapBytes(h) ==
  h.reachable + SizeOfObjString * h.white_strings + h.white_bytes

\* VM::free_objects, run when the VM is dropped: every cell of the heap list
\* is freed and its size subtracted
free_objects(al) ==
  [al EXCEPT !.bytes_allocated = @ - HeapBytes(al.heap),
             !.heap.reachable = 0,
             !.heap.white_strings = 0,
             !.heap.white_bytes = 0,
             !.heap.dropped = TRUE]

CommitAllocator(a) ==
  /\ bytes_allocated' = a.bytes_allocated
  /\ next_gc' = a.next_gc
  /\ heap' = a.heap
  /\ UNCHANGED << vm_vars, compile_vars, allocations, lhs, rhs, equal_result,
                  gc_vars >>

AllocatorBuilds == {"debug", "release"}

\* an object is allocated
AllocateObject ==
  /\ ~heap.dropped
  /\ heap.allocated < MaxObjects
  /\ \E kind \in ObjectKinds, build \in AllocatorBuilds :
       CommitAllocator(Allocator_allocate(AL, kind, build))

\* the program gives up its last reference to an object
Unreach ==
  /\ ~heap.dropped
  /\ heap.white_strings * SizeOfObjString + heap.white_bytes
       < MaxUnreached * SizeOfObjUpvalue
  /\ \E kind \in ObjectKinds :
       /\ heap.reachable >= size_of(kind)
       /\ CommitAllocator(
            [AL EXCEPT !.heap.reachable = @ - size_of(kind),
                       !.heap.white_strings =
                          IF kind = "String" THEN @ + 1 ELSE @,
                       !.heap.white_bytes =
                          IF kind = "String" THEN @ ELSE @ + size_of(kind)])

\* the heaps of a program that has allocated about next_gc bytes: all of it
\* still reachable, or all of it strings that nothing reaches any more
InitialBytes ==
  {NEXT_GC_INITIAL - SizeOfObjString, NEXT_GC_INITIAL,
   NEXT_GC_INITIAL + SizeOfObjString - (NEXT_GC_INITIAL % SizeOfObjString)}

InitAllocator ==
  /\ InitMachine
  /\ allocations = << >>
  /\ lhs = NilV
  /\ rhs = NilV
  /\ equal_result = "none"
  /\ InitGc
  /\ next_gc = NEXT_GC_INITIAL
  /\ bytes_allocated \in InitialBytes \cup {0}
  /\ \/ heap = [EmptyHeap EXCEPT !.reachable = bytes_allocated]
     \/ /\ bytes_allocated % SizeOfObjString = 0
        /\ heap = [EmptyHeap EXCEPT
                     !.white_strings = bytes_allocated \div SizeOfObjString]

\* the VM is dropped
DropVM ==
  /\ ~heap.dropped
  /\ CommitAllocator(free_objects(AL))

NextAllocator == AllocateObject \/ Unreach \/ DropVM

SpecAllocator == InitAllocator /\ [][NextAllocator]_vars

\* C23: a step that runs a collection leaves next_gc at no less than twice
\* the bytes_allocated the collection ended with, and a collection that
\* follows another one runs only when bytes_allocated has grown above that
\* threshold.
ThresholdGrowsWithHeap ==
  [][heap'.collections > heap.collections
       => /\ heap'.after_collection >= 0
          /\ next_gc' >= 2 * heap'.after_collection
          /\ heap.collections > 0
               => UsizeGreater(bytes_allocated, 2 * heap.after_collection)]_vars

\* next_gc keeps the value VM::new gave it
ThresholdNeverMoves == next_gc = NEXT_GC_INITIAL

\* in the release build every allocation above the first threshold collects
CollectsAboveInitialThreshold ==
  [][heap'.collections > heap.collections
       => UsizeGreater(bytes_allocated, NEXT_GC_INITIAL)]_vars

\* C24: the functions compile returns are determined by the source alone:
\* whenever one VM has compiled the same source more than once, whatever it
\* compiled and ran in between, each time gave the same functions, with the
\* same code bytes, the same line for every byte and the same constants,
\* for the script and for every function inside it.
CompileIsDeterministic ==
  \A a, b \in parser.compiled : a.source = b.source => a.program = b.program

\* a source of several lines with a function in it has been compiled, run
\* to its runtime error, and compiled again
CompiledTwice ==
  /\ src_text = Src_add_nil_in_function
  /\ Len(chunks) = 2
  /\ Cardinality(parser.compiled) = 1
  /\ Len(err) = 1
  /\ chunks[1] = chunks[2]
  /\ Len(chunks[2]) = 2
  /\ \E i, j \in DOMAIN chunks[2][2].lines :
       chunks[2][2].lines[i] # chunks[2][2].lines[j]

\* ---------------------------------------------------------------------
\* sources at the limits of a chunk
\* ---------------------------------------------------------------------
\* test/limit.rs no_reuse_constants: n expression statements, each a number
\* literal:  0;0;0; ...
ManyConstants(n) == [i \in 1 .. 2 * n |-> IF i % 2 = 1 THEN "0" ELSE ";"]

ConstantSources == {ManyConstants(U8_MAX + 1), ManyConstants(U8_MAX + 2)}

\* compile(source, err) entered with one of these sources
CompileConstants ==
  /\ calls = << >>
  /\ parser.result = "none"
  /\ src_text = << >>
  /\ \E s \in ConstantSources : src_text' = s
  /\ parser' = [NewParser EXCEPT !.compiled = parser.compiled]
  /\ calls' = << Frame("compile", 0, "") >>
  /\ UNCHANGED << vm_vars, value_vars >>

NextConstants ==
  \/ CompileConstants
  \/ Parser_compile
  \/ Parser_declaration
  \/ Parser_statement
  \/ Parser_expression_statement
  \/ Parser_parse_precedence
  \/ Parser_number

SpecConstants == Init /\ [][NextConstants]_vars

\* the constant operands of a function's Constant instructions are the
\* places of its constants in order
ConstantOperandsInOrder(f) ==
  \A i \in 1 .. Len(f.consts) :
    f.code[3 * i - 2] = OP_CONSTANT /\ f.code[3 * i - 1] = i - 1

\* C25: a chunk takes 256 constants, at indices 0 to 255, and the 257th is
\* the compile error "Too many constants in one chunk."; a function that
\* compile returns has no more than 256 constants, so that every one-byte
\* operand is the index it stands for.
ConstantLimit ==
  /\ parser.result = "Ok"
       => \A i \in DOMAIN CompiledProgram(parser) :
            Len(CompiledProgram(parser)[i].consts) <= U8_MAX + 1
  /\ (parser.result # "none" /\ src_text = ManyConstants(U8_MAX + 1))
       => /\ parser.result = "Ok"
          /\ parser.err = << >>
          /\ Len(Cur(parser).function.consts) = U8_MAX + 1
          /\ ConstantOperandsInOrder(Cur(parser).function)
  /\ (parser.result # "none" /\ src_text = ManyConstants(U8_MAX + 2))
       => /\ parser.result = "Compile"
          /\ parser.err
               = << "[line 1] Error at '0': Too many constants in one chunk." >>

\* the source with 257 constants has been compiled to its end
ConstantLimitReached ==
  /\ src_text = ManyConstants(U8_MAX + 2)
  /\ parser.result = "Compile"
  /\ Len(Cur(parser).function.consts) = U8_MAX + 2

\* test/limit.rs too_many_upvalues: n declarations  var x0; var x1; ...
ManyLocals(x, n) ==
  [i \in 1 .. 4 * n |->
     CASE i % 4 = 1 -> "var"
       [] i % 4 = 2 -> " "
       [] i % 4 = 3 -> x \o Display((i - 1) \div 4)
       [] OTHER -> ";"]

\* n expression statements  x0; x1; ...
ManyUses(x, n) ==
  [i \in 1 .. 2 * n |->
     IF i % 2 = 1 THEN x \o Display((i - 1) \div 2) ELSE ";"]

\* locals of f and of g that h may capture
LocalsOfF == 129
LocalsOfG == 128

\* fun f() { var a0; ... fun g() { var b0; ... fun h() { a0; ... b0; ...
\* and then the statements given as last } } }
ManyUpvalues(na, nb, last) ==
  << "fun", " ", "f", "(", ")", "{" >> \o ManyLocals("a", LocalsOfF)
  \o << "fun", " ", "g", "(", ")", "{" >> \o ManyLocals("b", LocalsOfG)
  \o << "fun", " ", "h", "(", ")", "{" >> \o ManyUses("a", na)
  \o ManyUses("b", nb) \o last \o << "}", "}", "}" >>

\* h captures 256 variables and uses two of them again
Src_upvalues_at_limit ==
  ManyUpvalues(LocalsOfF, U8_MAX + 1 - LocalsOfF, << "a0", ";", "b0", ";" >>)
\* h captures 257 variables
Src_too_many_upvalues ==
  ManyUpvalues(LocalsOfF, U8_MAX + 2 - LocalsOfF, << >>)

UpvalueSources == {Src_upvalues_at_limit, Src_too_many_upvalues}

\* compile(source, err) entered with one of these sources
CompileUpvalues ==
  /\ calls = << >>
  /\ parser.result = "none"
  /\ src_text = << >>
  /\ \E s \in UpvalueSources : src_text' = s
  /\ parser' = [NewParser EXCEPT !.compiled = parser.compiled]
  /\ calls' = << Frame("compile", 0, "") >>
  /\ UNCHANGED << vm_vars, value_vars >>

NextUpvalues ==
  \/ CompileUpvalues
  \/ Parser_compile
  \/ Parser_declaration
  \/ Parser_fun_declaration
  \/ Parser_function
  \/ Parser_block
  \/ Parser_var_declaration
  \/ Parser_statement
  \/ Parser_expression_statement
  \/ Parser_parse_precedence
  \/ Parser_variable
  \/ Parser_named_variable

SpecUpvalues == Init /\ [][NextUpvalues]_vars

\* the compilers of the functions being compiled, none before compile
Compilers == IF "compilers" \in DOMAIN parser THEN parser.compilers ELSE << >>

UpvalueCounts ==
  \A k \in DOMAIN Compilers :
    /\ Compilers[k].function.upvalue_count <= U8_MAX + 1
    /\ Compilers[k].function.upvalue_count = Len(Compilers[k].upvalues)

\* the i-th expression statement of a function whose statements each read
\* one upvalue reads the upvalue at index
ReadsUpvalue(f, i, index) ==
  /\ f.code[3 * i - 2] = OP_GET_UPVALUE
  /\ f.code[3 * i - 1] = index
  /\ f.code[3 * i] = OP_POP

\* C26: a function captures up to 256 distinct variables and the 257th is
\* the compile error "Too many closure variables in function."; a variable
\* captured before gets the index it has and adds no entry, and no function
\* ever counts more than 256 upvalues.
UpvalueLimit ==
  /\ UpvalueCounts
  /\ (parser.result # "none" /\ src_text = Src_upvalues_at_limit)
       => /\ parser.result = "Ok"
          /\ parser.err = << >>
          /\ parser.functions[1].name = "h"
          /\ parser.functions[1].upvalue_count = U8_MAX + 1
          /\ \A i \in 1 .. U8_MAX + 1 :
               ReadsUpvalue(parser.functions[1], i, i - 1)
          /\ ReadsUpvalue(parser.functions[1], U8_MAX + 2, 0)
          /\ ReadsUpvalue(parser.functions[1], U8_MAX + 3, LocalsOfF)
  /\ (parser.result # "none" /\ src_text = Src_too_many_upvalues)
       => /\ parser.result = "Compile"
          /\ parser.err
               = << "[line 1] Error at 'b" \o Display(U8_MAX + 1 - LocalsOfF)
                    \o "': Too many closure variables in function." >>
          /\ parser.functions[1].upvalue_count = U8_MAX + 1

\* both sources have been compiled to their ends
UpvalueLimitReached ==
  /\ src_text = Src_too_many_upvalues
  /\ parser.result = "Compile"
  /\ parser.functions[1].upvalue_count = U8_MAX + 1
  /\ Len(parser.functions) = 3

\* ---------------------------------------------------------------------
\* jumps and loops at the limit of their 16-bit operands
\* ---------------------------------------------------------------------
\* how far around u16::MAX the sizes of the bodies go
LimitWindow == 12

\* the script's chunk after  while (true) { 0; nil; nil; ...  or
\* if (true) { 0; nil; nil; ...  up to the closing brace, n bytes in all:
\* True, JumpIfFalse with its placeholder, Pop, and the statements of the
\* body, which starts with  0;  when that makes the count come out
BodyCompiled(n) ==
  [name |-> "", arity |-> 0, upvalue_count |-> 0,
   code |-> [i \in 1 .. n |->
              CASE i = 1 -> OP_TRUE
                [] i = 2 -> OP_JUMP_IF_FALSE
                [] i \in {3, 4} -> U8_MAX
                [] i = 5 -> OP_POP
                [] n % 2 = 0 /\ i = 6 -> OP_CONSTANT
                [] n % 2 = 0 /\ i = 7 -> 0
                [] n % 2 = 0 /\ i = 8 -> OP_POP
                [] i % 2 = n % 2 -> OP_POP
                [] OTHER -> OP_NIL],
   lines |-> [i \in 1 .. n |-> 1],
   consts |-> IF n % 2 = 0 THEN << KNum(0) >> ELSE << >>,
   targets |-> {}, loops |-> {}]

\* the parser when the statement of the body has returned: the closing
\* brace was the last token of the source
ParserAfterBody(n) ==
  [NewParser EXCEPT
     !.previous = Token("RightBrace", "}", 1),
     !.current = Token("EOF", "", 1),
     !.statement_starts = {0},
     !.compilers[1].function = BodyCompiled(n)]

BodySizes == U16_MAX - LimitWindow .. U16_MAX + LimitWindow

\* compile is in while_statement or if_statement, called from declaration,
\* and the body has just been compiled; src_text is what the scanner has
\* not read yet, nothing
InitJumps ==
  /\ InitVMState
  /\ InitValues
  /\ src_text = << >>
  /\ \E n \in BodySizes :
       /\ parser = ParserAfterBody(n)
       /\ \E statement \in {"while_statement", "if_statement"} :
            calls = << [Frame("compile", 0, "") EXCEPT !.pc = 1],
                       [Frame("declaration", 0, "") EXCEPT
                          !.pc = 1,
                          !.c = [pos |-> 1,
                                 current |->
                                   IF statement = "while_statement"
                                   THEN Token("While", "while", 1)
                                   ELSE Token("If", "if", 1)]],
                       [Frame(statement, 0, "") EXCEPT
                          !.pc = 2, !.a = IF statement = "while_statement"
                                          THEN 0 ELSE 2,
                          !.b = IF statement = "while_statement"
                                THEN 2 ELSE 0] >>

NextJumps ==
  \/ Parser_while_statement
  \/ Parser_if_statement
  \/ Parser_declaration
  \/ Parser_compile

SpecJumps == InitJumps /\ [][NextJumps]_vars

\* the 16-bit operand whose first byte is the i-th byte of code
Operand16(code, i) == code[i] * (U8_MAX + 1) + code[i + 1]

\* C27: a loop offset of 65535 compiles and one of 65536 is the error "Loop
\* body too large."; a jump distance above 65535 is the error "Too much code
\* to jump over."; in a function that compile returns, the operand of the
\* exit jump and of the Loop are the distances themselves.
JumpLimits ==
  parser.result # "none" =>
    LET code == Cur(parser).function.code
        n == Len(code)
        loop == code[n - 5] = OP_LOOP
        distance == IF loop THEN n - 3 ELSE n - 7
    IN  /\ parser.result = "Ok" <=> distance <= U16_MAX
        /\ parser.result = "Ok"
             => /\ Operand16(code, 3) = n - 7
                /\ loop => Operand16(code, n - 4) = n - 3
        /\ parser.result = "Compile"
             => parser.err
                  = << IF loop
                       THEN "[line 1] Error at '}': Loop body too large."
                       ELSE "[line 1] Error at '}': Too much code to jump over." >>

\* a loop whose offset is 65535 has been compiled
LoopAtLimit ==
  /\ parser.result = "Ok"
  /\ Len(Cur(parser).function.code) = U16_MAX + 3
  /\ Cur(parser).function.code[U16_MAX - 2] = OP_LOOP
  /\ Operand16(Cur(parser).function.code, U16_MAX - 1) = U16_MAX

\* C28: compile comes to an end on every source, because each iteration of
\* a loop of the parser that calls declaration (the top level, a block) or
\* method (a class body) has consumed a token when the call returns.
LoopIterationsConsume ==
  (calls # << >> /\ TopCall.fn \in {"declaration", "method"} /\ TopCall.pc = 1)
    => Progress(parser) # TopCall.c

\* the iterations of the top-level loop and of the block loop do consume
DeclarationsConsume ==
  (calls # << >> /\ TopCall.fn = "declaration" /\ TopCall.pc = 1)
    => Progress(parser) # TopCall.c

\* ------------------------------------------- open upvalues and the stack top
\* every open upvalue that a closure refers to points below the stack top
CapturedBelowTop ==
  \A u \in CapturedUpvalues : IsOpen(u) => cells[u].location < stack_index

\* C29: while a program runs, every open upvalue that a closure refers to
\* points to a stack slot below the stack top, a slot that holds a live
\* value and is among the roots of a collection.
OpenUpvaluesBelowTop == status = "running" => CapturedBelowTop

\* ------------------------------------------------ the trace of a runtime error
\* the name runtime_error prints for a frame
FrameName(v, frame) ==
  IF ClosureFn(v, frame.closure).name = "" THEN "script"
  ELSE ClosureFn(v, frame.closure).name

\* a step in which runtime_error reports an error
ReportsRuntimeError ==
  /\ status = "running"
  /\ status' \in {"error", "panic"}
  /\ Len(err') = Len(err) + 1

\* C30: a runtime error prints one trace line per active call frame, the
\* innermost frame first, and the line number of a frame is the line
\* recorded for the code byte at index ip - 1 of that frame, the byte the
\* frame read last.
TraceShowsExecutingLine ==
  [][ReportsRuntimeError =>
       LET e == err'[Len(err')]
           n == Len(frames')
       IN  /\ Len(e.trace) = n
           /\ Len(e.lines) = n
           /\ \A i \in 1 .. n :
                LET frame == frames'[n + 1 - i]
                    chunk == ClosureFn(VM', frame.closure)
                IN  /\ e.trace[i] = FrameName(VM', frame)
                    /\ frame.ip \in DOMAIN chunk.lines
                    /\ e.lines[i] = chunk.lines[frame.ip]]_vars

\* what the code prints instead: one line per frame, innermost first, with
\* the line recorded for the byte before the one the frame read last
TraceShowsPrecedingByteLine ==
  [][ReportsRuntimeError =>
       LET e == err'[Len(err')]
           n == Len(frames')
       IN  /\ Len(e.trace) = n
           /\ Len(e.lines) = n
           /\ \A i \in 1 .. n :
                LET frame == frames'[n + 1 - i]
                    chunk == ClosureFn(VM', frame.closure)
                IN  /\ e.trace[i] = FrameName(VM', frame)
                    /\ frame.ip - 1 \in DOMAIN chunk.lines
                    /\ e.lines[i] = chunk.lines[frame.ip - 1]]_vars

\* an error reported from a call, on an instruction whose line differs from
\* the line of the byte before it
ErrorInsideCall ==
  /\ status = "error"
  /\ Len(frames) = 2
  /\ err # << >>
  /\ err[Len(err)].lines = << 2, 5 >>
  /\ err[Len(err)].trace = << "f", "script" >>

\* ------------------------------------------- bytes_allocated and the heap list
\* C31: bytes_allocated is the total size of the cells on the heap list:
\* every cell is added once when allocated and subtracted once when freed,
\* a string that left the interner included, so the counter is never
\* negative and is 0 once free_objects has run.
BytesAllocatedIsHeapSize ==
  /\ bytes_allocated = HeapBytes(heap)
  /\ bytes_allocated >= 0
  /\ heap.dropped => bytes_allocated = 0

\* what the code keeps instead: the heap size less the size of every string
\* that has left the interner
BytesAllocatedLessRemovedStrings ==
  bytes_allocated = HeapBytes(heap) - SizeOfObjString * heap.removed

\* without a collection that removed a string the counter is exact
ExactWithoutRemovedStrings ==
  heap.removed = 0 => bytes_allocated = HeapBytes(heap)

\* ---------------------------------------------------------------------
\* gc.rs: handles inside allocations
\* ---------------------------------------------------------------------
\* the handles a program holds at one time
MaxHandles == 3
\* the boxes a program allocates
MaxBoxes == 3

Held(id) == Cardinality({i \in DOMAIN handles : handles[i] = id})
HeldIds == SeqToSet(handles)
\* handles without its i-th handle
WithoutHandle(i) ==
  SubSeq(handles, 1, i - 1) \o SubSeq(handles, i + 1, Len(handles))

\* the history of a collection: a box no handle outside the heap refers to
\* has come through a collection
Survived(al, held) ==
  [i \in DOMAIN al |->
     IF al[i].id \in held THEN al[i] ELSE [al[i] EXCEPT !.kept = TRUE]]

\* ObjUpvalue::new: Gc::new of an upvalue without next
NewUpvalue ==
  /\ Len(handles) < MaxHandles
  /\ FreshId(allocations, HeldIds) <= MaxBoxes
  /\ LET id == FreshId(allocations, HeldIds)
     IN  /\ allocations' =
              << GcBox(id, ObjUpvalue) >>
              \o Survived(GcState_collect_garbage(allocations), HeldIds)
         /\ handles' = Append(handles, id)
  /\ UNCHANGED << vm_vars, compile_vars, lhs, rhs, equal_result, heap_vars,
                  gc_cell >>

\* a handle is cloned
CloneHandle ==
  /\ Len(handles) < MaxHandles
  /\ \E i \in DOMAIN handles :
       /\ HasBox(allocations, handles[i])
       /\ allocations' = Gc_clone(allocations, handles[i])
       /\ handles' = Append(handles, handles[i])
  /\ UNCHANGED << vm_vars, compile_vars, lhs, rhs, equal_result, heap_vars,
                  gc_cell >>

\* a handle goes out of scope
DropHandle ==
  /\ \E i \in DOMAIN handles :
       /\ HasBox(allocations, handles[i])
       /\ allocations[BoxAt(allocations, handles[i])].roots > 0
       /\ allocations' = Gc_drop(allocations, handles[i])
       /\ handles' = WithoutHandle(i)
  /\ UNCHANGED << vm_vars, compile_vars, lhs, rhs, equal_result, heap_vars,
                  gc_cell >>

\* ObjUpvalue::add_next through borrow_mut: the handle moves into the box,
\* and the handle that was there is dropped
ObjUpvalue_add_next(al, a, b) ==
  LET old == al[BoxAt(al, a)].value.next
      set == [al EXCEPT ![BoxAt(al, a)].value.next = b,
                        ![BoxAt(al, b)].into_survivor =
                           al[BoxAt(al, a)].is_marked]
  IN  IF old = Null THEN set ELSE Gc_drop(set, old)

AddNext ==
  /\ \E i \in DOMAIN handles, j \in DOMAIN handles :
       /\ i # j
       /\ HasBox(allocations, handles[i])
       /\ HasBox(allocations, handles[j])
       /\ allocations' =
            ObjUpvalue_add_next(allocations, handles[i], handles[j])
       /\ handles' = WithoutHandle(j)
  /\ UNCHANGED << vm_vars, compile_vars, lhs, rhs, equal_result, heap_vars,
                  gc_cell >>

NextGc == NewUpvalue \/ CloneHandle \/ DropHandle \/ AddNext

SpecGc == Init /\ [][NextGc]_vars

\* the boxes a handle of the program or a rooted box leads to through next
\* handles, in at most n steps
RECURSIVE ReachableIds(_, _)
ReachableIds(ids, n) ==
  IF n = 0 THEN ids
  ELSE ReachableIds(
         ids \cup ({allocations[i].value.next :
                      i \in {k \in DOMAIN allocations :
                               allocations[k].id \in ids}} \ {Null}),
         n - 1)

RootedIds == {allocations[i].id : i \in {k \in DOMAIN allocations :
                                          allocations[k].roots > 0}}

\* C32: no collection frees a box that is reachable through Gc fields from a
\* box with a root count above zero: every such box is still on the
\* allocation list, after the second and every later collection and also
\* when the handle was stored into a box that had come through a collection.
ReachableNeverFreed ==
  \A id \in ReachableIds(RootedIds, MaxBoxes) : HasBox(allocations, id)

\* every handle is counted in the roots of its box
RootsCountHandles ==
  \A i \in DOMAIN allocations :
    allocations[i].roots =
      Held(allocations[i].id)
      + Cardinality({k \in DOMAIN allocations :
                       allocations[k].value.next = allocations[i].id})

\* a box stored into a box that had come through a collection has, with no
\* handle outside the heap, come through a later collection
StoredIntoSurvivorKept ==
  \E i \in DOMAIN allocations, j \in DOMAIN allocations :
    /\ allocations[i].value.next = allocations[j].id
    /\ allocations[i].roots > 0
    /\ allocations[j].into_survivor
    /\ Held(allocations[j].id) = 0
    /\ allocations[j].kept

\* --------------------------------------------------- marks after a collection
\* C33: after a collection every cell left on the heap list is unmarked
\* and the gray stack is empty, so that the next collection starts from a
\* heap without marks.
HeapWhiteAfterCollection ==
  /\ gray_stack = {}
  /\ \A o \in SeqToSet(objects) : ~cells[o].is_marked

\* a collection has freed a cell and left others, closures among them, on
\* the heap list
CollectionLeftSurvivors ==
  /\ \E i \in DOMAIN cells : cells[i].t = "Garbage"
  /\ \E o \in SeqToSet(objects) : cells[o].t = "Closure"
  /\ status = "running"

\* ------------------------------------------------- where jumps and loops land
\* the VM about to execute, in the script compile returned, the instruction
\* at code index ip with top on its stack
AboutToExecute(ip, top) ==
  Bind(interpret([VM EXCEPT !.chunks = << CompiledProgram(parser) >>],
                 Len(Programs) + 1, "none", "none"),
       LAMBDA v : [push(v, top) EXCEPT !.frames[1].ip = ip])

\* the code index at which the VM continues after the jump or Loop whose
\* operand is at code index operand
Landing(code, operand) ==
  LET v == AboutToExecute(operand - 1, BoolV(FALSE))
  IN  Ip(CASE code[operand] = OP_LOOP -> ExecLoop(v)
           [] code[operand] = OP_JUMP -> ExecJump(v)
           [] OTHER -> ExecJumpIfFalse(v))

\* C34: the VM that takes a jump patched by patch_jump continues at the first
\* code byte emitted after the patch, and the VM that executes a Loop
\* continues at loop_start, for distances up to 65535 in the two-byte
\* operand.
JumpsLandOnTarget ==
  parser.result = "Ok" =>
    \A t \in Cur(parser).function.targets :
      Landing(Cur(parser).function.code, t.operand) = t.target

\* an if statement whose jump over the body has the distance 65535 has been
\* compiled
JumpAtLimit ==
  /\ parser.result = "Ok"
  /\ \E t \in Cur(parser).function.targets :
       /\ Cur(parser).function.code[t.operand] = OP_JUMP_IF_FALSE
       /\ t.target - t.operand - 2 = U16_MAX
       /\ Landing(Cur(parser).function.code, t.operand) = t.target

\* in a running program every Jump, every Loop and every JumpIfFalse on a
\* falsey value continues where the parser meant it to
ExecutedJumpsLandOnTarget ==
  [][(/\ CurOp \in {OP_JUMP, OP_LOOP, OP_JUMP_IF_FALSE}
      /\ CurOp = OP_JUMP_IF_FALSE => is_falsey(peek(VM, 0)))
     => \E t \in current_chunk(VM).targets :
          /\ t.operand = Ip(VM) + 1
          /\ Len(frames') = Len(frames)
          /\ frames'[Len(frames)].ip = t.target]_vars

\* ---------------------------------------------------------------------
\* claims about scopes
\* ---------------------------------------------------------------------
\* a block with a captured local, two locals that are not captured and an
\* inner block:  { var a; var b; fun f() { a; } { var c; } }
Src_block_closure ==
  << "{", "var", " ", "a", ";", "var", " ", "b", ";",
     "fun", " ", "f", "(", ")", "{", "a", ";", "}",
     "{", "var", " ", "c", ";", "}", "}" >>

\* test/variable.rs scope_reuse_in_different_blocks, without the prints:
\* { var a; } { var a; }
Src_scope_reuse ==
  << "{", "var", " ", "a", ";", "}", "{", "var", " ", "a", ";", "}" >>

\* a block that fills the 256 local slots of the script and an inner block
\* with the given declarations:  { var x0; ... var x254; { ... } }
FullBlock(inner) ==
  << "{" >> \o ManyLocals("x", U8_MAX) \o << "{" >> \o inner \o << "}", "}" >>

Src_locals_at_limit == FullBlock(<< >>)
Src_too_many_locals == FullBlock(<< "var", " ", "y", ";" >>)

ScopeSources ==
  {Src_block_closure, Src_scope_reuse, Src_locals_at_limit,
   Src_too_many_locals}

\* compile(source, err) entered with one of these sources
CompileScopes ==
  /\ calls = << >>
  /\ parser.result = "none"
  /\ src_text = << >>
  /\ \E s \in ScopeSources : src_text' = s
  /\ parser' = [NewParser EXCEPT !.compiled = parser.compiled]
  /\ calls' = << Frame("compile", 0, "") >>
  /\ UNCHANGED << vm_vars, value_vars >>

NextScopes ==
  \/ CompileScopes
  \/ Parser_compile
  \/ Parser_declaration
  \/ Parser_fun_declaration
  \/ Parser_function
  \/ Parser_block
  \/ Parser_var_declaration
  \/ Parser_statement
  \/ Parser_expression_statement
  \/ Parser_parse_precedence
  \/ Parser_variable
  \/ Parser_named_variable

SpecScopes == Init /\ [][NextScopes]_vars

\* the instruction end_scope emits for a local
PopOf(local) == IF local.is_captured THEN OP_CLOSE_UPVALUE ELSE OP_POP

\* compiler c closes its innermost scope and becomes compiler d: the locals
\* are those at the matching begin_scope, unchanged, and the code ends with
\* one instruction per local above them, the last local first
ScopeClosed(c, d) ==
  LET start == c.scope_starts[Len(c.scope_starts)]
      n == Len(c.locals)
      m == Len(d.function.code)
  IN  /\ d.locals = SubSeq(c.locals, 1, start)
      /\ Len(d.locals) = start
      /\ m >= Len(c.function.code) + (n - start)
      /\ \A i \in 1 .. n - start :
           d.function.code[m - (n - start) + i] = PopOf(c.locals[n - i + 1])

\* the step emitted nothing but one instruction per local it removed, as the
\* step that closes a block does
OnlyPops(c, d) ==
  Len(d.function.code)
    = Len(c.function.code) + Len(c.locals) - Len(d.locals)

\* a step of the parser runs end_scope in the function being compiled
EndScopeStep ==
  /\ Len(Compilers) > 0
  /\ Len(Compilers') = Len(Compilers)
  /\ Compilers'[Len(Compilers)].scope_depth
       = Compilers[Len(Compilers)].scope_depth - 1

\* C35: end_scope emits exactly one instruction for each local declared in
\* the scope being closed, CloseUpvalue if the local was captured and Pop
\* otherwise, the last declared first, and restores the local count of the
\* matching begin_scope; the locals of enclosing scopes are neither popped
\* nor changed.
EndScopePops ==
  [][EndScopeStep =>
       /\ ScopeClosed(Compilers[Len(Compilers)], Compilers'[Len(Compilers)])
       /\ Running_("statement") =>
            OnlyPops(Compilers[Len(Compilers)], Compilers'[Len(Compilers)])]_vars

\* the same in a compile that has reported no error
EndScopePopsWithoutError ==
  [][(EndScopeStep /\ ~parser.had_error) =>
       /\ ScopeClosed(Compilers[Len(Compilers)], Compilers'[Len(Compilers)])
       /\ Running_("statement") =>
            OnlyPops(Compilers[Len(Compilers)], Compilers'[Len(Compilers)])]_vars

\* the block of Src_block_closure has been closed: three Pop for c, f and b
\* and a CloseUpvalue for a
BlockWithCaptureClosed ==
  /\ src_text = Src_block_closure
  /\ parser.result = "Ok"
  /\ LET code == Cur(parser).function.code
         m == Len(code) - 2
     IN  /\ m >= 4
         /\ SubSeq(code, m - 3, m)
              = << OP_POP, OP_POP, OP_POP, OP_CLOSE_UPVALUE >>

\* ---------------------------------------------------------------------
\* claims about the for statement
\* ---------------------------------------------------------------------
\* the part of for statement L that the instruction at code index ip belongs
\* to; the condition's JumpIfFalse, Pop and the Jump over the increment count
\* as cond, the Loop that ends the increment as incr and the Loop that ends
\* the body as body
ForRegion(L, ip) ==
  CASE ip < L.init \/ ip >= L.exit -> "out"
    [] ip < L.cond -> "init"
    [] ip >= L.body -> "body"
    [] L.incr # -1 /\ ip >= L.incr -> "incr"
    [] OTHER -> "cond"

\* where the instructions of a part start
ForStart(L, part) == IF part = "out" THEN L.exit ELSE L[part]

\* the parts that may run next after the condition, after the initializer
\* and after the code before the statement
AfterCond(L) == {"body"} \cup (IF L.exit_jump # -1 THEN {"out"} ELSE {})
AfterInit(L) ==
  IF L.cond < (IF L.incr # -1 THEN L.incr ELSE L.body) THEN {"cond"}
  ELSE AfterCond(L)
AfterOut(L) == IF L.init < L.cond THEN {"init"} ELSE AfterInit(L)

\* the parts that may run next after a part: init once, then cond, body,
\* incr, cond, ...
ForNext(L, part) ==
  CASE part = "out" -> AfterOut(L)
    [] part = "init" -> AfterInit(L)
    [] part = "cond" -> AfterCond(L)
    [] part = "body" -> IF L.incr # -1 THEN {"incr"} ELSE AfterInit(L)
    [] OTHER -> AfterInit(L)

\* the VM executes an instruction of a function and stays in it
StaysInFunction ==
  /\ status = "running"
  /\ status' = "running"
  /\ frames # << >>
  /\ Len(frames') = Len(frames)
  /\ frames'[Len(frames)].closure = frames[Len(frames)].closure
  /\ chunks' = chunks

\* C36: for (init; cond; incr) body runs init once and then repeats cond,
\* body, incr in that order: the increment is entered only from the end of
\* the body, the body only from the condition, and when the condition is
\* falsey the statement is left at once, without body or increment.
ForRunsInOrder ==
  [][StaysInFunction =>
       \A L \in current_chunk(VM).loops :
         LET from == ForRegion(L, Ip(VM))
             to == ForRegion(L, frames'[Len(frames)].ip)
         IN  /\ from # to =>
                  /\ to \in ForNext(L, from)
                  /\ frames'[Len(frames)].ip = ForStart(L, to)
             /\ (from = "cond" /\ to = "out") =>
                  /\ Ip(VM) = L.exit_jump - 1
                  /\ is_falsey(peek(VM, 0))
             /\ (Ip(VM) = L.exit_jump - 1 /\ is_falsey(peek(VM, 0))) =>
                  frames'[Len(frames)].ip = L.exit]_vars

\* the first loop of Src_for_syntax has printed 0 and 1 and has been left
\* on the falsey condition after its second increment
ForLeftOnFalseyCondition ==
  /\ src_text = Src_for_syntax
  /\ status = "running"
  /\ frames # << >>
  /\ out = << "0", "1" >>
  /\ \E L \in current_chunk(VM).loops :
       /\ L.init < L.cond
       /\ L.exit_jump # -1
       /\ L.incr # -1
       /\ Ip(VM) = L.exit
       /\ is_falsey(peek(VM, 0))

\* ---------------------------------------------------------------------
\* claims about the capacity of the value stack
\* ---------------------------------------------------------------------
\* vm.rs: const STACK_MAX, the length of VM::stack
STACK_MAX == 256

\* a block of n locals:  { var x0; ... }
BlockOfLocals(n) == << "{" >> \o ManyLocals("x", n) \o << "}" >>

\* with the script's closure in slot 0, the first block has STACK_MAX - 1
\* values on the stack when it ends and the second has STACK_MAX
StackSources == {BlockOfLocals(STACK_MAX - 2), BlockOfLocals(STACK_MAX - 1)}

\* VM::new, with the whole array of the value stack
FullStackVM ==
  [InitVM EXCEPT !.stack = [i \in 0 .. STACK_MAX - 1 |-> NilV]]

InitFullStack ==
  /\ frames = FullStackVM.frames
  /\ stack = FullStackVM.stack
  /\ stack_index = FullStackVM.stack_index
  /\ strings = FullStackVM.strings
  /\ globals = FullStackVM.globals
  /\ cells = FullStackVM.cells
  /\ gray_stack = FullStackVM.gray_stack
  /\ objects = FullStackVM.objects
  /\ init_string = FullStackVM.init_string
  /\ open_upvalues = FullStackVM.open_upvalues
  /\ out = FullStackVM.out
  /\ err = FullStackVM.err
  /\ status = FullStackVM.status
  /\ lines = FullStackVM.lines
  /\ chunks = FullStackVM.chunks
  /\ src_text = << >>
  /\ parser = NoParser
  /\ calls = << >>
  /\ InitValues

\* VM::interpret(source) entered with one of these sources
InterpretStack ==
  /\ status \notin {"running", "panic"}
  /\ calls = << >>
  /\ parser.result = "none"
  /\ Len(lines) < MaxLines
  /\ \E s \in StackSources : src_text' = s
  /\ parser' = [NewParser EXCEPT !.compiled = parser.compiled]
  /\ calls' = << Frame("compile", 0, "") >>
  /\ UNCHANGED << vm_vars, value_vars >>

NextStack ==
  \/ InterpretStack
  \/ Parser_compile
  \/ Parser_declaration
  \/ Parser_statement
  \/ Parser_block
  \/ Parser_var_declaration
  \/ InterpretCompiled
  \/ OpNil
  \/ OpPop
  \/ OpReturn

SpecStack == InitFullStack /\ [][NextStack]_vars

\* the VM reports "Stack overflow." in the step
ReportsStackOverflow ==
  /\ status' = "error"
  /\ Len(err') = Len(err) + 1
  /\ err'[Len(err')].msg = "Stack overflow."

\* the push of a Nil instruction succeeds
PushesNil ==
  /\ status' = "running"
  /\ stack_index' = stack_index + 1
  /\ stack'[stack_index] = NilV

\* C37: the value stack has capacity 256: a push with fewer than 256 values
\* on the stack succeeds, a push fails with "Stack overflow." only when the
\* stack is full, and stack_index never exceeds 256.
PushFailsOnlyWhenFull ==
  [][/\ CurOp = OP_NIL =>
          IF stack_index < STACK_MAX THEN PushesNil ELSE ReportsStackOverflow
     /\ stack_index' <= STACK_MAX]_vars

\* what the code does: a push with fewer than 255 values on the stack
\* succeeds, a push with 255 fails, and stack_index never exceeds 255
PushFailsAtLimit ==
  [][/\ CurOp = OP_NIL =>
          IF stack_index < STACK_LIMIT THEN PushesNil
          ELSE ReportsStackOverflow
     /\ stack_index' <= STACK_LIMIT]_vars

\* a program has filled the stack up to the limit and run to its end
StackFilledToLimit ==
  /\ status = "ok"
  /\ src_text = BlockOfLocals(STACK_MAX - 2)
  /\ stack[STACK_LIMIT - 1] = NilV
  /\ err = << >>

\* ---------------------------------------------------------------------
\* gc.rs: GcCell and its borrow flags
\* ---------------------------------------------------------------------
\* a flags word is a usize held as its signed residue: !0 is -1
\* the guards that may be outstanding at once
MaxReaders == 130

\* bit 7 of a flags word, the bit of BorrowFlag::ROOT
RootBit(flags) == (flags \div BorrowFlag_ROOT) % 2

\* BorrowFlag::WRITING = !ROOT and BorrowFlag::UNUSED
BorrowFlag_WRITING == -1 - BorrowFlag_ROOT
BorrowFlag_UNUSED == 0

\* BorrowFlag::borrowed: the word without the ROOT bit tells the state
borrowed(flags) ==
  LET state == flags - BorrowFlag_ROOT * RootBit(flags)
  IN  CASE state = BorrowFlag_WRITING -> "Writing"
        [] state = BorrowFlag_UNUSED -> "Unused"
        [] OTHER -> "Reading"

\* BorrowFlag::rooted
rooted(flags) == RootBit(flags) # 0

\* BorrowFlag::set_writing: self.0 | WRITING
set_writing(flags) == IF rooted(flags) THEN -1 ELSE BorrowFlag_WRITING

\* BorrowFlag::set_unused: self.0 & ROOT
set_unused(flags) == BorrowFlag_ROOT * RootBit(flags)

\* BorrowFlag::add_reading and sub_reading, after their assert!
add_reading(flags) == flags + 1
sub_reading(flags) == flags - 1

\* the cell after an assert! has failed
Panicked(cell) == [cell EXCEPT !.panicked = TRUE]

\* GcCell::try_borrow: None leaves the cell as it is, Some hands out a
\* GcCellRef
try_borrow(cell) ==
  IF borrowed(cell.flags) = "Writing" THEN cell
  ELSE IF borrowed(add_reading(cell.flags)) # "Reading" THEN Panicked(cell)
  ELSE [cell EXCEPT !.flags = add_reading(@), !.refs = @ + 1]

\* try_borrow_mut that refuses only while the cell is written
try_borrow_mutWhileRead(cell) ==
  IF borrowed(cell.flags) = "Writing" THEN cell
  ELSE [cell EXCEPT !.flags = set_writing(@), !.ref_muts = @ + 1]

\* GcCell::try_borrow_mut: None leaves the cell as it is, Some hands out a
\* GcCellRefMut; root() of the value does nothing
try_borrow_mut(cell) ==
  IF borrowed(cell.flags) # "Unused" THEN cell
  ELSE [cell EXCEPT !.flags = set_writing(@), !.ref_muts = @ + 1]

\* Drop for GcCellRef
GcCellRef_drop(cell) ==
  IF borrowed(cell.flags) # "Reading" THEN Panicked(cell)
  ELSE [cell EXCEPT !.flags = sub_reading(@), !.refs = @ - 1]

\* Drop for GcCellRefMut; unroot() of the value does nothing
GcCellRefMut_drop(cell) ==
  [cell EXCEPT !.flags = set_unused(@), !.ref_muts = @ - 1]

\* the cell becomes what a call made of it
CommitCell(cell) ==
  /\ gc_cell' = cell
  /\ UNCHANGED << vm_vars, compile_vars, allocations, lhs, rhs, equal_result,
                  heap_vars, handles >>

Usable == ~gc_cell.panicked

TryBorrow ==
  /\ Usable
  /\ gc_cell.refs + gc_cell.ref_muts < MaxReaders
  /\ CommitCell(try_borrow(gc_cell))

TryBorrowMut ==
  /\ Usable
  /\ gc_cell.refs + gc_cell.ref_muts < MaxReaders
  /\ CommitCell(try_borrow_mut(gc_cell))

DropRef ==
  /\ Usable
  /\ gc_cell.refs > 0
  /\ CommitCell(GcCellRef_drop(gc_cell))

DropRefMut ==
  /\ Usable
  /\ gc_cell.ref_muts > 0
  /\ CommitCell(GcCellRefMut_drop(gc_cell))

NextBorrow == TryBorrow \/ TryBorrowMut \/ DropRef \/ DropRefMut

SpecBorrow == Init /\ [][NextBorrow]_vars

\* C38: over any sequence of try_borrow, try_borrow_mut and guard drops a
\* mutable borrow is granted only when no borrow at all is outstanding and a
\* shared borrow is refused while a mutable borrow is outstanding, for any
\* number of outstanding shared borrows.
BorrowsExclusive ==
  [][/\ gc_cell'.ref_muts > gc_cell.ref_muts =>
          gc_cell.refs = 0 /\ gc_cell.ref_muts = 0
     /\ gc_cell.ref_muts > 0 => gc_cell'.refs = gc_cell.refs]_vars

\* a GcCellRefMut is never outstanding together with another guard
OneWriterOrReaders ==
  gc_cell.ref_muts = 0 \/ (gc_cell.ref_muts = 1 /\ gc_cell.refs = 0)

\* the flags tell the guards that are outstanding, and no call panics
FlagsCountGuards ==
  /\ Usable
  /\ borrowed(gc_cell.flags)
       = (IF gc_cell.ref_muts > 0 THEN "Writing"
          ELSE IF gc_cell.refs > 0 THEN "Reading" ELSE "Unused")

\* so many shared borrows are outstanding that their count has reached the
\* ROOT bit of the flags, and a mutable borrow has just been refused
ReadersPastRootBit ==
  /\ gc_cell.refs > BorrowFlag_ROOT
  /\ ~rooted(gc_cell.flags)
  /\ gc_cell.ref_muts = 0
  /\ try_borrow_mut(gc_cell) = gc_cell

====
